---- MODULE Spec2Model ----
(***************************************************************************)
(* Live Columns: the marker codec, the block locator, the editable surface *)
(* controller with its flush protocol, and the input filter, modelled from *)
(* src/unnamed/part_000 (the newer variant, lines 526-1345) and            *)
(* src/main.ts.                                                            *)
(*                                                                         *)
(* Text is a sequence of tokens.  A marker (start, end, colors, borders,   *)
(* separator) is one token, as is a newline and an ordinary character, and *)
(* every token occupies one offset.  The regular expressions of the source *)
(* are modelled by what they match on such text: the start and end         *)
(* patterns match a marker token anywhere, the line-anchored metadata      *)
(* patterns match a line that consists of the one metadata token.          *)
(***************************************************************************)
EXTENDS Integers, Sequences, FiniteSets, TLC

\* ------------------------------------------------------------------ bounds
\* longest column text handed to buildColumnsMarkdown
MaxTextLen == 1
\* longest columns sequence handed to buildColumnsMarkdown
MaxColumnsLen == 2
\* longest colors or borders sequence handed to buildColumnsMarkdown
MaxStyleLen == 1
\* longest raw text handed to findColumnsBlocks
MaxRawLen == 4
\* the largest column count of the range check, src/unnamed/part_000:1059
MaxNumColumns == 6
\* longest text the user types into one pane
MaxPaneLen == 3
\* keystrokes in panes (typed characters, Tab) in one run
MaxKeys == 2
\* edits made outside the surfaces (raw editor, style picker) in one run
MaxExtEdits == 1
\* longest document a raw insertion may produce
MaxDocLen == 12
\* most lines between the start marker and the body of a hand-written block
MaxMetaLines == 3
\* longest body of a hand-written block
MaxBodyLen == 3
\* Delete or Backspace presses on a focused container in one run
MaxBlockDeletes == 1
\* animation frames are counted modulo MaxFrames + 1
MaxFrames == 2

\* ------------------------------------------------------------------ tokens
Tok(kind, num, val) == [k |-> kind, n |-> num, v |-> val]
NL == Tok("nl", 0, <<>>)
Ch(c) == Tok("ch", 0, <<c>>)
StartTok(num) == Tok("start", num, <<>>)
EndTok == Tok("end", 0, <<>>)
\* an end marker written with one trailing percent: "%% columns:end %"
LenientEndTok == Tok("end", 0, <<"%">>)
SepTok == Tok("sep", 0, <<>>)
ColorsTok(fields) == Tok("colors", 0, fields)
BordersTok(fields) == Tok("borders", 0, fields)

Min(S) == CHOOSE x \in S : \A y \in S : x <= y
Max(S) == CHOOSE x \in S : \A y \in S : x >= y
MathMin(a, b) == IF a <= b THEN a ELSE b
MathMax(a, b) == IF a >= b THEN a ELSE b

\* text.slice(from, to) on 0-based offsets
Slice(text, from, to) == SubSeq(text, from + 1, to)

\* RegExp.exec of a marker pattern that requires the closing "%%": markers
\* written with one trailing percent do not match
RECURSIVE ExecStrictFrom(_, _, _)
ExecStrictFrom(text, kind, from) ==
    IF from >= Len(text) THEN -1
    ELSE IF text[from + 1].k = kind /\ text[from + 1].v = <<>> THEN from
    ELSE ExecStrictFrom(text, kind, from + 1)

\* the locator's patterns requiring the closing "%%" as well
ExecTwoPercentFrom(text, kind, from) == ExecStrictFrom(text, kind, from)

\* RegExp.exec of a marker pattern with lastIndex = from: the 0-based offset
\* of the first token of that kind at or after from, or -1
RECURSIVE ExecFrom(_, _, _)
ExecFrom(text, kind, from) ==
    IF from >= Len(text) THEN -1
    ELSE IF text[from + 1].k = kind THEN from
    ELSE ExecFrom(text, kind, from + 1)

\* String.split(/\r?\n/)
RECURSIVE SplitLines(_)
SplitLines(text) ==
    LET i == ExecFrom(text, "nl", 0)
    IN IF i = -1 THEN <<text>>
       ELSE <<Slice(text, 0, i)>> \o SplitLines(Slice(text, i + 1, Len(text)))

\* Array.join('\n')
RECURSIVE JoinLines(_)
JoinLines(lines) ==
    IF lines = <<>> THEN <<>>
    ELSE IF Len(lines) = 1 THEN lines[1]
    ELSE lines[1] \o <<NL>> \o JoinLines(Tail(lines))

IsSpace(t) == t.k = "nl"

\* String.trim()
RECURSIVE TrimLeft(_)
TrimLeft(text) ==
    IF text # <<>> /\ IsSpace(text[1]) THEN TrimLeft(Tail(text)) ELSE text
RECURSIVE TrimRight(_)
TrimRight(text) ==
    IF text # <<>> /\ IsSpace(text[Len(text)])
    THEN TrimRight(SubSeq(text, 1, Len(text) - 1)) ELSE text
Trim(text) == TrimRight(TrimLeft(text))

\* Array.slice(0, n)
Take(s, n) == SubSeq(s, 1, MathMin(n, Len(s)))

\* items.join('|') as the fields of the metadata line: the text of a line
\* always has at least one field ("" splits to [""])
JoinBar(items) == IF items = <<>> THEN <<"">> ELSE items
\* match[1].split('|').map(c => c.trim())
SplitBar(fields) == fields

\* ------------------------------------------------------------ marker codec
\* the columns joined without the separator line between them
ColumnLinesNoSep(cols, idx) == [i \in 1..Len(cols) |-> cols[i]]

RECURSIVE ColumnLines(_, _)
ColumnLines(cols, idx) ==
    IF cols = <<>> THEN <<>>
    ELSE (IF idx > 0 THEN <<(<<SepTok>>)>> ELSE <<>>)
         \o <<cols[1]>> \o ColumnLines(Tail(cols), idx + 1)

PadTo(cols, n) ==
    [i \in 1..MathMax(n, Len(cols)) |-> IF i <= Len(cols) THEN cols[i] ELSE <<>>]

ColorsProvided(colors) == Len(colors) > 0

buildColumnsMarkdown(numColumns, columns, colors, borders) ==
    LET normalized == PadTo(columns, numColumns)
        colorLines == IF ColorsProvided(colors)
                      THEN <<(<<ColorsTok(JoinBar(Take(colors, numColumns)))>>)>>
                      ELSE <<>>
        borderLines == IF ColorsProvided(borders)
                       THEN <<(<<BordersTok(JoinBar(Take(borders, numColumns)))>>)>>
                       ELSE <<>>
    IN JoinLines(<<(<<StartTok(numColumns)>>)>> \o colorLines \o borderLines
                 \o ColumnLines(Take(normalized, numColumns), 0)
                 \o <<(<<EndTok>>)>>)

IsSepLine(line) == Trim(line) = <<SepTok>>

\* body.split(/^\s*---\s*col\s*---\s*$/im) on the lines of the body
RECURSIVE SplitOnSep(_, _)
SplitOnSep(lines, cur) ==
    IF lines = <<>> THEN <<JoinLines(cur)>>
    ELSE IF IsSepLine(lines[1])
         THEN <<JoinLines(cur)>> \o SplitOnSep(Tail(lines), <<>>)
         ELSE SplitOnSep(Tail(lines), Append(cur, lines[1]))

\* the parts of the body without the padding to numColumns
parseColumnsNoPadding(body, numColumns) ==
    LET parts == SplitOnSep(SplitLines(body), <<>>)
    IN [i \in 1..MathMin(numColumns, Len(parts)) |-> Trim(parts[i])]

parseColumnsFromBody(body, numColumns) ==
    LET parts == SplitOnSep(SplitLines(body), <<>>)
    IN [i \in 1..numColumns |-> IF i <= Len(parts) THEN Trim(parts[i]) ELSE <<>>]

IsColorLine(line) == Len(line) = 1 /\ line[1].k = "colors"
IsBorderLine(line) == Len(line) = 1 /\ line[1].k = "borders"

\* the metadata loop accepting a colors line only before the borders line
RECURSIVE ConsumeMetadataOrdered(_, _, _, _)
ConsumeMetadataOrdered(blockLines, colors, borders, metadataLen) ==
    IF blockLines = <<>>
    THEN [lines |-> blockLines, colors |-> colors, borders |-> borders,
          metadataLen |-> metadataLen]
    ELSE LET line == blockLines[1]
             trimmedLine == Trim(line)
         IN IF trimmedLine = <<>>
            THEN ConsumeMetadataOrdered(Tail(blockLines), colors, borders,
                                        metadataLen + Len(line) + 1)
            ELSE IF IsColorLine(trimmedLine) /\ borders = <<>>
            THEN ConsumeMetadataOrdered(Tail(blockLines),
                                        SplitBar(trimmedLine[1].v), borders,
                                        metadataLen + Len(line) + 1)
            ELSE IF IsBorderLine(trimmedLine)
            THEN ConsumeMetadataOrdered(Tail(blockLines), colors,
                                        SplitBar(trimmedLine[1].v),
                                        metadataLen + Len(line) + 1)
            ELSE [lines |-> blockLines, colors |-> colors, borders |-> borders,
                  metadataLen |-> metadataLen]

\* the metadata loop of findColumnsBlocks: consumes blank, colors and borders
\* lines from the front of blockLines
RECURSIVE ConsumeMetadata(_, _, _, _)
ConsumeMetadata(blockLines, colors, borders, metadataLen) ==
    IF blockLines = <<>>
    THEN [lines |-> blockLines, colors |-> colors, borders |-> borders,
          metadataLen |-> metadataLen]
    ELSE LET line == blockLines[1]
             trimmedLine == Trim(line)
         IN IF trimmedLine = <<>>
            THEN ConsumeMetadata(Tail(blockLines), colors, borders,
                                 metadataLen + Len(line) + 1)
            ELSE IF IsColorLine(trimmedLine)
            THEN ConsumeMetadata(Tail(blockLines), SplitBar(trimmedLine[1].v),
                                 borders, metadataLen + Len(line) + 1)
            ELSE IF IsBorderLine(trimmedLine)
            THEN ConsumeMetadata(Tail(blockLines), colors,
                                 SplitBar(trimmedLine[1].v),
                                 metadataLen + Len(line) + 1)
            ELSE [lines |-> blockLines, colors |-> colors, borders |-> borders,
                  metadataLen |-> metadataLen]

\* the range check with the upper limit off by one
NumInRangeLoose(num) == ~(num < 1 \/ num > MaxNumColumns + 1)

NumInRange(num) == ~(num < 1 \/ num > MaxNumColumns)

\* findColumnsBlocks without the last statement of its loop: the search for
\* the next start marker resumes after the start marker, not after the end
RECURSIVE FindBlocksOverlapping(_, _)
FindBlocksOverlapping(text, lastIndex) ==
    LET m == ExecFrom(text, "start", lastIndex)
    IN IF m = -1 THEN <<>>
       ELSE LET num == text[m + 1].n
                startLast == m + 1
                e == ExecFrom(text, "end", startLast)
            IN IF ~NumInRange(num) THEN FindBlocksOverlapping(text, startLast)
               ELSE IF e = -1 THEN FindBlocksOverlapping(text, startLast)
               ELSE LET meta == ConsumeMetadata(
                                    SplitLines(Slice(text, startLast, e)),
                                    <<>>, <<>>, 0)
                    IN <<[numColumns |-> num,
                          columns |-> parseColumnsFromBody(JoinLines(meta.lines), num),
                          startPos |-> m,
                          endPos |-> e + 1,
                          startMarkerLen |-> 1 + meta.metadataLen,
                          endMarkerLen |-> 1,
                          colors |-> meta.colors,
                          borders |-> meta.borders]>>
                       \o FindBlocksOverlapping(text, startLast)

RECURSIVE FindBlocksFrom(_, _)
FindBlocksFrom(text, lastIndex) ==
    LET m == ExecFrom(text, "start", lastIndex)
    IN IF m = -1 THEN <<>>
       ELSE LET num == text[m + 1].n
                startLast == m + 1
                e == ExecFrom(text, "end", startLast)
            IN IF ~NumInRange(num) THEN FindBlocksFrom(text, startLast)
               ELSE IF e = -1 THEN FindBlocksFrom(text, startLast)
               ELSE LET meta == ConsumeMetadata(
                                    SplitLines(Slice(text, startLast, e)),
                                    <<>>, <<>>, 0)
                    IN <<[numColumns |-> num,
                          columns |-> parseColumnsFromBody(JoinLines(meta.lines), num),
                          startPos |-> m,
                          endPos |-> e + 1,
                          startMarkerLen |-> 1 + meta.metadataLen,
                          endMarkerLen |-> 1,
                          colors |-> meta.colors,
                          borders |-> meta.borders]>>
                       \o FindBlocksFrom(text, e + 1)

findColumnsBlocks(text) == FindBlocksFrom(text, 0)

\* ----------------------------------------------------------- content codec
\* HTML is a sequence of tokens too: the tags are tokens, text is unchanged
DivOpen == Tok("<div>", 0, <<>>)
DivClose == Tok("</div>", 0, <<>>)
Br == Tok("<br>", 0, <<>>)

RECURSIVE JoinWith(_, _)
JoinWith(parts, sep) ==
    IF parts = <<>> THEN <<>>
    ELSE IF Len(parts) = 1 THEN parts[1]
    ELSE parts[1] \o sep \o JoinWith(Tail(parts), sep)

\* /^(?!<[hulo])(.+)$/gm: every non-empty line becomes a <div>
WrapLine(line) == IF line = <<>> THEN <<>> ELSE <<DivOpen>> \o line \o <<DivClose>>

renderContent(text) ==
    IF Trim(text) = <<>> THEN <<Br>>
    ELSE LET lines == SplitLines(text)
         IN JoinWith([i \in 1..Len(lines) |-> WrapLine(lines[i])], <<Br>>)

\* .replace(/<div[^>]*><br><\/div>/gi, '\n')
RECURSIVE ReplaceEmptyDiv(_)
ReplaceEmptyDiv(html) ==
    IF html = <<>> THEN <<>>
    ELSE IF Len(html) >= 3 /\ html[1] = DivOpen /\ html[2] = Br /\ html[3] = DivClose
         THEN <<NL>> \o ReplaceEmptyDiv(SubSeq(html, 4, Len(html)))
         ELSE <<html[1]>> \o ReplaceEmptyDiv(Tail(html))

\* <div> -> '\n', </div> -> '', <br> -> '\n'
RECURSIVE ReplaceTags(_)
ReplaceTags(html) ==
    IF html = <<>> THEN <<>>
    ELSE (IF html[1] = DivOpen \/ html[1] = Br THEN <<NL>>
          ELSE IF html[1] = DivClose THEN <<>>
          ELSE <<html[1]>>) \o ReplaceTags(Tail(html))

RECURSIVE StripLeadingNL(_)
StripLeadingNL(text) ==
    IF text # <<>> /\ text[1] = NL THEN StripLeadingNL(Tail(text)) ELSE text
RECURSIVE StripTrailingNL(_)
StripTrailingNL(text) ==
    IF text # <<>> /\ text[Len(text)] = NL
    THEN StripTrailingNL(SubSeq(text, 1, Len(text) - 1)) ELSE text

\* .replace(/\n{3,}/g, '\n\n')
RECURSIVE CollapseNL(_)
CollapseNL(text) ==
    IF Len(text) >= 3 /\ text[1] = NL /\ text[2] = NL /\ text[3] = NL
    THEN CollapseNL(Tail(text))
    ELSE IF text = <<>> THEN <<>>
    ELSE <<text[1]>> \o CollapseNL(Tail(text))

extractContent(html) ==
    Trim(CollapseNL(StripTrailingNL(StripLeadingNL(ReplaceTags(ReplaceEmptyDiv(html))))))

\* the pane element: in raw mode it shows text (colDiv.innerText = content, a
\* newline is a <br>), in rendered mode the HTML of renderContent
RawHTML(text) == [i \in 1..Len(text) |-> IF text[i] = NL THEN Br ELSE text[i]]
setColumnContent(content, rawMode) == [raw |-> rawMode, text |-> content]
InnerHTML(pane) == IF pane.raw THEN RawHTML(pane.text) ELSE renderContent(pane.text)
InnerText(pane) == pane.text


\* ------------------------------------------------------------------- state
VARIABLES
    doc,          \* the document text (view.state.doc)
    livePreview,  \* editorLivePreviewField
    surfaces,     \* the ColumnsWidget objects whose DOM handlers can still run
    focus,        \* <<surface, pane>> of the focused pane, <<0, 0>> for none
    picker,       \* the open colour palette (showColorPaletteForColumn), or closed
    lastOp,       \* the last handler that ran and the transaction it dispatched
    keys,         \* keystrokes typed into panes so far
    extEdits,     \* edits made outside the surfaces so far (raw editor, picker)
    call          \* argument and result of the pure-function specifications

vars == <<doc, livePreview, surfaces, focus, picker, lastOp, keys, extEdits, call>>

ExtEditCount == extEdits.raw + extEdits.style

NoFocus == <<0, 0>>
NoPicker == [open |-> FALSE]
NoCall == [fn |-> "none"]

\* ------------------------------------------------------------ input filter
\* the scan of blockCollapsedInput for one change starting at fromA: every
\* start marker is paired with the first end marker after it
RECURSIVE InHiddenZoneFrom(_, _, _)
InHiddenZoneFrom(text, fromA, lastIndex) ==
    LET m == ExecFrom(text, "start", lastIndex)
    IN IF m = -1 THEN FALSE
       ELSE LET blockStart == m
                firstLineEnd == blockStart + 1
                e == ExecFrom(text, "end", m + 1)
                blockEnd == e + 1
            IN (e # -1 /\ fromA > firstLineEnd /\ fromA <= blockEnd)
               \/ InHiddenZoneFrom(text, fromA, m + 1)

\* TRUE when the transaction filter cancels a transaction with this change
blockCollapsedInput(isLivePreview, text, change) ==
    /\ isLivePreview
    /\ ~(change.from = change.to /\ change.insert = <<>>)
    /\ InHiddenZoneFrom(text, change.from, 0)

ApplyChange(text, change) ==
    Slice(text, 0, change.from) \o change.insert \o Slice(text, change.to, Len(text))

\* ----------------------------------------------------------------- surface
\* constructor and toDOM of ColumnsWidget
NewSurface(block) ==
    LET contents == PadTo(block.columns, block.numColumns)
    IN [block |-> block,
        columnContents |-> contents,
        isUpdating |-> FALSE,
        container |-> TRUE,
        panes |-> [i \in 1..block.numColumns |-> setColumnContent(contents[i], FALSE)],
        timers |-> {},
        pos |-> block.startPos,
        alive |-> TRUE,
        superseded |-> FALSE]

\* the first colors (borders) line anywhere in blockContent:
\* blockContent.match(colorLineRe), not anchored to a line
FirstMeta(blockContent, kind) ==
    LET i == ExecFrom(blockContent, kind, 0)
    IN IF i = -1 THEN <<>> ELSE SplitBar(blockContent[i + 1].v)

\* the re-find loop of syncToSource
RECURSIVE SyncFindBlock(_, _, _)
SyncFindBlock(text, numColumns, lastIndex) ==
    LET m == ExecFrom(text, "start", lastIndex)
    IN IF m = -1 THEN [found |-> FALSE]
       ELSE LET e == ExecFrom(text, "end", m + 1)
            IN IF e # -1 /\ text[m + 1].n = numColumns
               THEN [found |-> TRUE, startPos |-> m, endPos |-> e + 1,
                     colors |-> FirstMeta(Slice(text, m + 1, e), "colors"),
                     borders |-> FirstMeta(Slice(text, m + 1, e), "borders")]
               ELSE SyncFindBlock(text, numColumns, m + 1)

HasChanges(newContents, columnContents) ==
    \E i \in 1..Len(newContents) :
        newContents[i] # (IF i <= Len(columnContents) THEN columnContents[i] ELSE <<>>)

\* syncToSource without the finally block: an exception leaves the guard set
ExitNoFinally(surf, exit) ==
    IF exit = "thrown" THEN surf ELSE [surf EXCEPT !.isUpdating = FALSE]

\* this.isUpdating = true at the entry of syncToSource
Enter(surf) == [surf EXCEPT !.isUpdating = TRUE]
\* the exits of syncToSource after the entry: the return of the no-change
\* check resets the guard itself, the finally block resets it after the
\* dispatch and after a caught exception
Exit(surf, exit) == [surf EXCEPT !.isUpdating = FALSE]

\* syncToSource up to the dispatch: the surface afterwards and the
\* transaction it dispatches, if any
\* the block syncToSource writes to: the one its loop found, else this.block
CurrentBlock(surf, found) ==
    IF found.found THEN found
    ELSE [found |-> FALSE,
          startPos |-> surf.block.startPos, endPos |-> surf.block.endPos,
          colors |-> surf.block.colors, borders |-> surf.block.borders]

\* the transaction of syncToSource: the clamped span of currentBlock is
\* replaced by the markdown built from newContents
SyncChange(surf, text, newContents, currentBlock) ==
    LET from == MathMax(0, MathMin(currentBlock.startPos, Len(text)))
    IN [surf |-> Exit([surf EXCEPT !.columnContents = newContents], "dispatched"),
        dispatch |-> TRUE, read |-> TRUE,
        refound |-> currentBlock.found,
        change |-> [from |-> from,
                    to |-> MathMax(from, MathMin(currentBlock.endPos, Len(text))),
                    insert |-> buildColumnsMarkdown(
                        surf.block.numColumns, newContents,
                        currentBlock.colors, currentBlock.borders)]]

SyncContents(surf, text, newContents) ==
    IF ~HasChanges(newContents, surf.columnContents)
    THEN [surf |-> Exit(surf, "noChange"), dispatch |-> FALSE, read |-> TRUE]
    ELSE SyncChange(surf, text, newContents,
                    CurrentBlock(surf, SyncFindBlock(text, surf.block.numColumns, 0)))

syncToSource(surf, text) ==
    IF surf.isUpdating \/ ~surf.container
    THEN [surf |-> surf, dispatch |-> FALSE, read |-> FALSE]
    ELSE SyncContents(Enter(surf), text,
             [i \in 1..Len(surf.panes) |-> extractContent(InnerHTML(surf.panes[i]))])

\* syncToSource when extractContent throws (at = "extract") or when
\* buildColumnsMarkdown or the dispatch throws (at = "dispatch"): the catch
\* block logs, nothing is dispatched
SyncThrows(surf, newContents, at) ==
    IF at = "extract"
    THEN [surf |-> Exit(surf, "thrown"), dispatch |-> FALSE, read |-> FALSE]
    ELSE IF ~HasChanges(newContents, surf.columnContents)
    THEN [surf |-> Exit(surf, "noChange"), dispatch |-> FALSE, read |-> TRUE]
    ELSE [surf |-> Exit([surf EXCEPT !.columnContents = newContents], "thrown"),
          dispatch |-> FALSE, read |-> TRUE]

syncToSourceThrows(surf, at) ==
    IF surf.isUpdating \/ ~surf.container
    THEN [surf |-> surf, dispatch |-> FALSE, read |-> FALSE]
    ELSE SyncThrows(Enter(surf),
             [i \in 1..Len(surf.panes) |-> extractContent(InnerHTML(surf.panes[i]))],
             at)


\* ------------------------------------------------- decorations and widgets
\* the located block that starts at offset p, as a set of at most one block
StartingAt(blocks, p) ==
    {blocks[j] : j \in {j \in 1..Len(blocks) : blocks[j].startPos = p}}

BlocksAt(text, p) == StartingAt(findColumnsBlocks(text), p)

\* the blocks buildDecorations puts a widget on: none outside live preview,
\* the span clamped to the document, empty spans skipped
DecoratedBlocks(isLivePreview, text) ==
    IF ~isLivePreview THEN <<>>
    ELSE LET Shown(b) ==
                 LET from == MathMax(0, MathMin(b.startPos, Len(text)))
                     to == MathMax(from, MathMin(b.endPos, Len(text)))
                 IN from # to
         IN SelectSeq(findColumnsBlocks(text), Shown)

\* one builder.add(from, to, decoration) of buildDecorations
Range(from, to, class) == [from |-> from, to |-> to, class |-> class]

\* the body of the loop of buildDecorations for one block: the decorations
\* it adds to the builder, in order
BlockRanges(block, docLength) ==
    LET from == MathMax(0, MathMin(block.startPos, docLength))
        to == MathMax(from, MathMin(block.endPos, docLength))
        startHideTo == MathMin(docLength, from + block.startMarkerLen)
        endFrom == MathMax(from, to - block.endMarkerLen)
    IN IF from = to THEN <<>>
       ELSE <<Range(from, from, "widget")>>
            \o (IF startHideTo > from
                THEN <<Range(from, startHideTo, "live-columns-marker-hidden")>>
                ELSE <<>>)
            \o (IF endFrom > startHideTo
                THEN <<Range(startHideTo, endFrom, "live-columns-body-hidden")>>
                ELSE <<>>)
            \o (IF to > endFrom
                THEN <<Range(endFrom, to, "live-columns-marker-hidden")>>
                ELSE <<>>)

\* ColumnsWidget.eq: the column count and the column texts, not the offsets
eq(block, other) ==
    /\ block.numColumns = other.numColumns
    /\ Len(block.columns) = Len(other.columns)
    /\ \A i \in 1..Len(block.columns) : block.columns[i] = other.columns[i]

\* the update that throws the existing DOM away and builds the widget anew
ReconcileOneFresh(surf, isLivePreview, oldText, newText, change) ==
    [surf EXCEPT !.alive = FALSE, !.container = FALSE]

\* where a widget at offset p is after the change
MapPos(p, change) ==
    IF p < change.from THEN p
    ELSE IF p = change.from
         THEN (IF change.to > change.from THEN p ELSE p + Len(change.insert))
    ELSE IF p >= change.to
         THEN p + Len(change.insert) - (change.to - change.from)
    ELSE -1

\* columnsViewPlugin.update after a document change: the decorations are
\* rebuilt; a widget that is again at the (mapped) place of an old one keeps
\* the old DOM, because updateDOM returns true whatever eq says, so the
\* object that built the DOM stays its controller; a widget whose block is
\* gone is destroyed; a block without a widget gets a new one
ReconcileOne(surf, isLivePreview, oldText, newText, change) ==
    IF ~surf.alive THEN surf
    ELSE LET p == MapPos(surf.pos, change)
             oldEnds == {b.endPos : b \in BlocksAt(oldText, surf.pos)}
             oldEnd == IF oldEnds = {} THEN surf.pos ELSE Max(oldEnds)
             touched == change.from <= oldEnd /\ change.to >= surf.pos
             shown == DecoratedBlocks(isLivePreview, newText)
             kept == p # -1 /\ \E j \in 1..Len(shown) : shown[j].startPos = p
         IN IF kept
            THEN [surf EXCEPT !.pos = p, !.superseded = surf.superseded \/ touched]
            ELSE [surf EXCEPT !.alive = FALSE, !.container = surf.superseded]

\* a destroyed widget matters only while one of its timers can still flush
Inert(surf) == ~surf.alive /\ (~surf.container \/ surf.timers = {})

\* the blocks of the new decoration set that no kept widget stands on
FreshBlocks(mapped, blocks) ==
    LET HasWidget(b) ==
            \E k \in 1..Len(mapped) : mapped[k].alive /\ mapped[k].pos = b.startPos
        Fresh(b) == ~HasWidget(b)
    IN SelectSeq(blocks, Fresh)

WithFresh(mapped, fresh, foc, newText) ==
    [doc |-> newText,
     surfaces |-> mapped \o [j \in 1..Len(fresh) |-> NewSurface(fresh[j])],
     focus |-> IF foc # NoFocus /\ mapped[foc[1]].alive THEN foc ELSE NoFocus,
     blocked |-> FALSE]

Renew(mapped, blocks, foc, newText) ==
    WithFresh(mapped, FreshBlocks(mapped, blocks), foc, newText)

Reconcile(surfs, foc, isLivePreview, oldText, newText, change) ==
    Renew([k \in 1..Len(surfs) |->
              ReconcileOne(surfs[k], isLivePreview, oldText, newText, change)],
          DecoratedBlocks(isLivePreview, newText), foc, newText)

\* the widget objects nothing can call any more are forgotten
Collect(surfs, foc) ==
    LET keptIdx == {k \in 1..Len(surfs) : ~Inert(surfs[k])}
        Live(surf) == ~Inert(surf)
    IN [surfaces |-> SelectSeq(surfs, Live),
        focus |-> IF foc # NoFocus /\ foc[1] \in keptIdx
                  THEN <<Cardinality({j \in keptIdx : j <= foc[1]}), foc[2]>>
                  ELSE NoFocus]

\* view.dispatch of one change: the transaction filter, then the update
Dispatch(text, surfs, foc, isLivePreview, change) ==
    IF blockCollapsedInput(isLivePreview, text, change)
    THEN [doc |-> text, surfaces |-> surfs, focus |-> foc, blocked |-> TRUE]
    ELSE Reconcile(surfs, foc, isLivePreview, text, ApplyChange(text, change), change)


\* ----------------------------------------------------------------- actions
NoChange == [from |-> 0, to |-> 0, insert |-> <<>>]
Op(name, s, i, dispatched, blocked, change) ==
    [op |-> name, s |-> s, i |-> i, dispatched |-> dispatched,
     blocked |-> blocked, change |-> change]
NoOp == Op("none", 0, 0, FALSE, FALSE, NoChange)

PaneChars == {Ch("a"), NL}
RawChars == {Ch("x")}

\* a flush request of surface s (already updated by the calling handler to
\* surf): syncToSource and the dispatch it makes
Flush(name, s, i, surf, foc) ==
    \E r \in {syncToSource(surf, doc)} :
    \E d \in {IF r.dispatch
              THEN Dispatch(doc, [surfaces EXCEPT ![s] = r.surf], foc,
                            livePreview, r.change)
              ELSE [doc |-> doc, surfaces |-> [surfaces EXCEPT ![s] = r.surf],
                    focus |-> foc, blocked |-> FALSE]} :
    \E c \in {Collect(d.surfaces, d.focus)} :
       /\ doc' = d.doc
       /\ surfaces' = c.surfaces
       /\ focus' = c.focus
       /\ lastOp' = Op(name, s, i, r.dispatch, d.blocked,
                       IF r.dispatch THEN r.change ELSE NoChange)
       /\ UNCHANGED <<livePreview, picker, keys, extEdits, call>>

\* the focus handler of a pane: the pane shows its raw markdown
FocusPane(s, i) ==
    /\ focus = NoFocus
    /\ surfaces[s].alive
    /\ surfaces' = [surfaces EXCEPT
           ![s].panes[i] = setColumnContent(surfaces[s].columnContents[i], TRUE)]
    /\ focus' = <<s, i>>
    /\ lastOp' = Op("focus", s, i, FALSE, FALSE, NoChange)
    /\ UNCHANGED <<doc, livePreview, picker, keys, extEdits, call>>

\* the texts one keystroke makes of the pane's text
EditedTexts(text) ==
    {Append(text, c) : c \in {c \in PaneChars : Len(text) < MaxPaneLen}}

\* a keystroke in the focused pane, then its input handler: the buffer is
\* updated and the pane's debounce timer is (re)started
InputPane(s, i) ==
    /\ focus = <<s, i>>
    /\ keys < MaxKeys
    /\ keys' = keys + 1
    /\ \E newText \in EditedTexts(surfaces[s].panes[i].text) :
          surfaces' = [surfaces EXCEPT
              ![s].panes[i] = setColumnContent(newText, TRUE),
              ![s].columnContents[i] = Trim(newText),
              ![s].timers = surfaces[s].timers \cup {i}]
    /\ lastOp' = Op("input", s, i, FALSE, FALSE, NoChange)
    /\ UNCHANGED <<doc, livePreview, focus, picker, extEdits, call>>

\* the blur handler of the focused pane
BlurPane(s, i) ==
    /\ focus = <<s, i>>
    /\ LET content == Trim(InnerText(surfaces[s].panes[i]))
           surf == [surfaces[s] EXCEPT
                       !.columnContents[i] = content,
                       !.panes[i] = setColumnContent(content, FALSE)]
       IN Flush("blur", s, i, surf, NoFocus)

\* handleKeydown, the Tab branch with the wrap-around dropped
nextIndexNoWrap(columnIndex, length, shiftKey) ==
    IF shiftKey THEN MathMax(columnIndex - 1, 0)
    ELSE MathMin(columnIndex + 1, length - 1)

\* handleKeydown, the Tab branch: the 0-based index of the pane to focus
nextIndex(columnIndex, length, shiftKey) ==
    IF shiftKey THEN (columnIndex - 1 + length) % length
    ELSE (columnIndex + 1) % length

\* the surfaces after the focus handler of the pane that foc names
Focused(surfs, foc) ==
    IF foc = NoFocus THEN surfs
    ELSE [surfs EXCEPT ![foc[1]].panes[foc[2]] =
             setColumnContent(surfs[foc[1]].columnContents[foc[2]], TRUE)]

\* Tab or Shift+Tab in the focused pane i of surface s: nextCol.focus() runs
\* the blur handler of pane i, with its flush, then the focus handler of
\* the next pane; focusing the pane that has the focus does nothing
TabPane(s, i, shiftKey) ==
    /\ focus = <<s, i>>
    /\ surfaces[s].container
    /\ keys < MaxKeys
    /\ keys' = keys + 1
    /\ LET next == nextIndex(i - 1, Len(surfaces[s].panes), shiftKey) + 1
           name == IF shiftKey THEN "shiftTab" ELSE "tab"
           content == Trim(InnerText(surfaces[s].panes[i]))
           surf == [surfaces[s] EXCEPT
                       !.columnContents[i] = content,
                       !.panes[i] = setColumnContent(content, FALSE)]
       IN IF next = i
          THEN /\ lastOp' = Op(name, s, i, FALSE, FALSE, NoChange)
               /\ UNCHANGED <<doc, surfaces, focus>>
          ELSE \E r \in {syncToSource(surf, doc)} :
               \E d \in {IF r.dispatch
                         THEN Dispatch(doc, [surfaces EXCEPT ![s] = r.surf],
                                       <<s, next>>, livePreview, r.change)
                         ELSE [doc |-> doc,
                               surfaces |-> [surfaces EXCEPT ![s] = r.surf],
                               focus |-> <<s, next>>, blocked |-> FALSE]} :
               \E c \in {Collect(d.surfaces, d.focus)} :
                  /\ doc' = d.doc
                  /\ surfaces' = Focused(c.surfaces, c.focus)
                  /\ focus' = c.focus
                  /\ lastOp' = Op(name, s, i, r.dispatch, d.blocked,
                                  IF r.dispatch THEN r.change ELSE NoChange)
    /\ UNCHANGED <<livePreview, picker, extEdits, call>>

\* the debounce timer of pane i fires and stays armed, as an interval
\* timer would
TimerFireRearmed(s, i) ==
    /\ i \in surfaces[s].timers
    /\ Flush("timer", s, i, surfaces[s], focus)

\* the debounce timer of pane i fires
TimerFire(s, i) ==
    /\ i \in surfaces[s].timers
    /\ Flush("timer", s, i,
             [surfaces[s] EXCEPT !.timers = surfaces[s].timers \ {i}], focus)

\* the debounce timer of pane i fires and the flush throws
TimerThrows(s, i, at) ==
    /\ i \in surfaces[s].timers
    /\ \E r \in {syncToSourceThrows(
                     [surfaces[s] EXCEPT !.timers = surfaces[s].timers \ {i}], at)} :
       \E c \in {Collect([surfaces EXCEPT ![s] = r.surf], focus)} :
          /\ surfaces' = c.surfaces
          /\ focus' = c.focus
          /\ lastOp' = Op("timerThrows", s, i, FALSE, FALSE, NoChange)
    /\ UNCHANGED <<doc, livePreview, picker, keys, extEdits, call>>

\* an edit typed into the raw editor: one transaction with one change
RawEdit(change) ==
    /\ ExtEditCount < MaxExtEdits
    /\ Len(doc) + Len(change.insert) <= MaxDocLen
    /\ \E d \in {Dispatch(doc, surfaces, focus, livePreview, change)} :
       \E c \in {Collect(d.surfaces, d.focus)} :
          /\ doc' = d.doc
          /\ surfaces' = c.surfaces
          /\ focus' = c.focus
          /\ lastOp' = Op("raw", 0, 0, TRUE, d.blocked, change)
    /\ extEdits' = [extEdits EXCEPT !.raw = extEdits.raw + 1]
    /\ UNCHANGED <<livePreview, picker, keys, call>>

RawInsert == \E p \in 0..Len(doc) : \E t \in RawChars :
    RawEdit([from |-> p, to |-> p, insert |-> <<t>>])

RawDelete == \E p \in 0..(Len(doc) - 1) :
    RawEdit([from |-> p, to |-> p + 1, insert |-> <<>>])

\* deleteEntireBlock: the change it dispatches, from the offsets the widget
\* was constructed with
deleteEntireBlock(text, block) ==
    LET to == block.endPos
        deleteTo == IF to < Len(text) /\ text[to + 1] = NL THEN to + 1 ELSE to
    IN [from |-> block.startPos, to |-> deleteTo, insert |-> <<>>]

\* Delete or Backspace while the container of surface s has the focus; a
\* change that reaches beyond the document makes dispatch throw
DeleteBlock(s) ==
    /\ focus = NoFocus
    /\ surfaces[s].alive
    /\ extEdits.del < MaxBlockDeletes
    /\ \E change \in {deleteEntireBlock(doc, surfaces[s].block)} :
          IF change.to > Len(doc)
          THEN /\ lastOp' = Op("delete", s, 0, FALSE, FALSE, change)
               /\ UNCHANGED <<doc, surfaces, focus>>
          ELSE \E d \in {Dispatch(doc, surfaces, focus, livePreview, change)} :
               \E c \in {Collect(d.surfaces, d.focus)} :
                  /\ doc' = d.doc
                  /\ surfaces' = c.surfaces
                  /\ focus' = c.focus
                  /\ lastOp' = Op("delete", s, 0, TRUE, d.blocked, change)
    /\ extEdits' = [extEdits EXCEPT !.del = extEdits.del + 1]
    /\ UNCHANGED <<livePreview, picker, keys, call>>

\* ------------------------------------------------------------ style picker
StyleTokens == {"", "g"}

\* the loop of showColorPaletteForColumn that finds the Nth start marker
\* (0-indexed): its offset, or -1
RECURSIVE NthStart(_, _, _)
NthStart(text, blockIndex, lastIndex) ==
    LET m == ExecStrictFrom(text, "start", lastIndex)
    IN IF m = -1 THEN -1
       ELSE IF blockIndex = 0 THEN m
       ELSE NthStart(text, blockIndex - 1, m + 1)

\* the metadata loop of showColorPaletteForColumn over blockLines[1 .. len-2]
RECURSIVE PaletteMetadata(_, _, _)
PaletteMetadata(lines, colors, borders) ==
    IF lines = <<>> THEN [colors |-> colors, borders |-> borders]
    ELSE LET line == Trim(lines[1])
         IN IF line = <<>> THEN PaletteMetadata(Tail(lines), colors, borders)
            ELSE IF IsColorLine(line)
            THEN PaletteMetadata(Tail(lines), SplitBar(line[1].v), borders)
            ELSE IF IsBorderLine(line)
            THEN PaletteMetadata(Tail(lines), colors, SplitBar(line[1].v))
            ELSE [colors |-> colors, borders |-> borders]

PadStyles(items, n) ==
    [i \in 1..MathMax(n, Len(items)) |-> IF i <= Len(items) THEN items[i] ELSE ""]

\* showColorPaletteForColumn up to modal.open(): the palette it opens, or
\* closed when it returns with a Notice
showColorPaletteForColumn(text, columnIndex, type, blockIndex) ==
    LET startPos == NthStart(text, blockIndex, 0)
    IN IF startPos = -1 THEN NoPicker
       ELSE LET num == text[startPos + 1].n
                e == ExecStrictFrom(text, "end", startPos + 1)
            IN IF num < 1 \/ columnIndex >= num \/ e = -1 THEN NoPicker
               ELSE LET blockLines == SplitLines(Slice(text, startPos, e + 1))
                        meta == PaletteMetadata(
                                    SubSeq(blockLines, 2, Len(blockLines) - 1),
                                    <<>>, <<>>)
                    IN [open |-> TRUE, type |-> type, columnIndex |-> columnIndex,
                        startPos |-> startPos, endPos |-> e + 1, num |-> num,
                        colors |-> PadStyles(meta.colors, num),
                        borders |-> PadStyles(meta.borders, num),
                        doc |-> text]

\* text.replace(re, lineContent): the first line of that kind is rewritten
ReplaceFirst(text, kind, tok) ==
    LET i == ExecFrom(text, kind, 0)
    IN [j \in 1..Len(text) |-> IF j = i + 1 THEN tok ELSE text[j]]

\* .replace(/%%\s*columns:<kind>\s+[^\n%]+\s*%%\n?/g, '')
RECURSIVE RemoveLines(_, _)
RemoveLines(text, kind) ==
    IF text = <<>> THEN <<>>
    ELSE IF text[1].k = kind
         THEN (IF Len(text) >= 2 /\ text[2] = NL
               THEN RemoveLines(SubSeq(text, 3, Len(text)), kind)
               ELSE RemoveLines(Tail(text), kind))
         ELSE <<text[1]>> \o RemoveLines(Tail(text), kind)

\* the helper updateLine of applyColumnStyles
updateLine(kind, items, numColumns, text) ==
    LET lineContent == Tok(kind, 0, JoinBar(Take(items, numColumns)))
        insertAt == ExecStrictFrom(text, "start", 0)
    IN IF ExecFrom(text, kind, 0) # -1 THEN ReplaceFirst(text, kind, lineContent)
       ELSE IF insertAt = -1 THEN text
       ELSE Slice(text, 0, insertAt + 1) \o <<NL, lineContent>>
            \o Slice(text, insertAt + 1, Len(text))

HasStyle(items) == \E i \in 1..Len(items) : items[i] # ""

\* applyColumnStyles: the text that replaces [startPos, endPos)
applyColumnStyles(startPos, endPos, numColumns, colors, borders, text) ==
    LET blockText == Slice(text, startPos, endPos)
        withColors == IF HasStyle(colors)
                      THEN updateLine("colors", colors, numColumns, blockText)
                      ELSE RemoveLines(blockText, "colors")
    IN IF HasStyle(borders)
       THEN updateLine("borders", borders, numColumns, withColors)
       ELSE RemoveLines(withColors, "borders")

\* the position of the clicked container among all .live-columns-container
ContainerIndex(surfs, s) ==
    Cardinality({k \in 1..Len(surfs) : surfs[k].alive /\ surfs[k].pos < surfs[s].pos})

\* a click on column i of surface s in column selection mode
ClickColumn(s, i, type) ==
    /\ ~picker.open
    /\ ExtEditCount < MaxExtEdits
    /\ surfaces[s].alive
    /\ picker' = showColorPaletteForColumn(doc, i - 1, type,
                                           ContainerIndex(surfaces, s))
    /\ lastOp' = Op("click", s, i, FALSE, FALSE, NoChange)
    /\ UNCHANGED <<doc, livePreview, surfaces, focus, keys, extEdits, call>>

\* the user picks a token in the modal: the callback applies the styles
ChooseColor(token) ==
    /\ picker.open
    /\ LET k == picker.columnIndex + 1
           colors == IF picker.type = "color"
                     THEN [picker.colors EXCEPT ![k] = token] ELSE picker.colors
           borders == IF picker.type = "border"
                      THEN [picker.borders EXCEPT ![k] = token] ELSE picker.borders
           change == [from |-> MathMin(picker.startPos, Len(doc)),
                      to |-> MathMin(picker.endPos, Len(doc)),
                      insert |-> applyColumnStyles(picker.startPos, picker.endPos,
                                     picker.num, colors, borders, picker.doc)]
       IN \E d \in {Dispatch(doc, surfaces, focus, livePreview, change)} :
          \E c \in {Collect(d.surfaces, d.focus)} :
             /\ doc' = d.doc
             /\ surfaces' = c.surfaces
             /\ focus' = c.focus
             /\ lastOp' = Op("style", 0, k, TRUE, d.blocked, change)
    /\ picker' = NoPicker
    /\ extEdits' = [extEdits EXCEPT !.style = extEdits.style + 1]
    /\ UNCHANGED <<livePreview, keys, call>>

\* the user closes the modal without picking
ClosePicker ==
    /\ picker.open
    /\ picker' = NoPicker
    /\ lastOp' = Op("close", 0, 0, FALSE, FALSE, NoChange)
    /\ UNCHANGED <<doc, livePreview, surfaces, focus, keys, extEdits, call>>

\* ------------------------------------------------------------------- init
A == Ch("a")
B == Ch("b")
\* one block of two one-line columns
DocTwoColumns == <<StartTok(2), NL, A, NL, SepTok, NL, B, NL, EndTok>>
\* two blocks with the same column count
DocTwins == <<StartTok(1), NL, A, NL, EndTok, NL, StartTok(1), NL, B, NL, EndTok>>
\* a region with a count out of range, then a block
DocOutOfRange == <<StartTok(7), NL, A, NL, EndTok, NL, StartTok(1), NL, B, NL, EndTok>>
\* a start marker with a count out of range and no end marker before a block
DocStray == <<StartTok(7), NL, StartTok(1), NL, A, NL, EndTok>>
\* a second column of two lines, the second looking like a colors line
DocBodyMeta == <<StartTok(2), NL, A, NL, SepTok, NL, B, NL,
                 ColorsTok(<<"g", "">>), NL, EndTok>>
InitDocs == {DocTwoColumns, DocTwins, DocOutOfRange, DocStray, DocBodyMeta}

Init ==
    /\ doc \in InitDocs
    /\ livePreview \in BOOLEAN
    /\ surfaces = [j \in 1..Len(DecoratedBlocks(livePreview, doc)) |->
                      NewSurface(DecoratedBlocks(livePreview, doc)[j])]
    /\ focus = NoFocus
    /\ picker = NoPicker
    /\ lastOp = NoOp
    /\ keys = 0
    /\ extEdits = [raw |-> 0, style |-> 0, del |-> 0]
    /\ call = NoCall

Focusing == \E s \in 1..Len(surfaces) : \E i \in 1..Len(surfaces[s].panes) : FocusPane(s, i)
Typing == \E s \in 1..Len(surfaces) : \E i \in 1..Len(surfaces[s].panes) : InputPane(s, i)
Blurring == \E s \in 1..Len(surfaces) : \E i \in 1..Len(surfaces[s].panes) : BlurPane(s, i)
Debounce == \E s \in 1..Len(surfaces) : \E i \in 1..Len(surfaces[s].panes) : TimerFire(s, i)

Clicking == \E s \in 1..Len(surfaces) : \E i \in 1..Len(surfaces[s].panes) :
    \E type \in {"color", "border"} : ClickColumn(s, i, type)
Choosing == \E token \in StyleTokens : ChooseColor(token)
Deleting == \E s \in 1..Len(surfaces) : DeleteBlock(s)
Throwing == \E s \in 1..Len(surfaces) : \E i \in 1..Len(surfaces[s].panes) :
    \E at \in {"extract", "dispatch"} : TimerThrows(s, i, at)
Tabbing == \E s \in 1..Len(surfaces) : \E i \in 1..Len(surfaces[s].panes) :
    \E shiftKey \in BOOLEAN : TabPane(s, i, shiftKey)

Next ==
    \/ Focusing \/ Typing \/ Blurring \/ Debounce
    \/ RawInsert \/ RawDelete
    \/ Clicking \/ Choosing \/ ClosePicker
    \/ Deleting \/ Tabbing \/ Throwing

Spec == Init /\ [][Next]_vars

\* ------------------------------------------------------ cursor relocation
\* the updateListener cursorAutoJump and the requestAnimationFrame callback
\* it schedules; call holds the selection head, the target of the pending
\* callback (-1: none) and the number of the animation frame
\* the scan of cursorAutoJump with a start marker that no end marker follows
\* taken as a region that reaches the end of the document
RECURSIVE JumpTargetOpenEnded(_, _, _)
JumpTargetOpenEnded(text, cursor, lastIndex) ==
    LET m == ExecFrom(text, "start", lastIndex)
    IN IF m = -1 THEN -1
       ELSE LET firstLineEnd == m + 1
                e == ExecFrom(text, "end", m + 1)
                blockEnd == IF e = -1 THEN Len(text) ELSE e + 1
            IN IF cursor > firstLineEnd /\ cursor <= blockEnd
               THEN MathMin(blockEnd + 1, Len(text))
               ELSE JumpTargetOpenEnded(text, cursor, m + 1)

RECURSIVE JumpTargetFrom(_, _, _)
JumpTargetFrom(text, cursor, lastIndex) ==
    LET m == ExecFrom(text, "start", lastIndex)
    IN IF m = -1 THEN -1
       ELSE LET firstLineEnd == m + 1
                e == ExecFrom(text, "end", m + 1)
                blockEnd == e + 1
            IN IF e # -1 /\ cursor > firstLineEnd /\ cursor <= blockEnd
               THEN MathMin(blockEnd + 1, Len(text))
               ELSE JumpTargetFrom(text, cursor, m + 1)

\* cursorAutoJump on an update with selectionSet: the targetPos of the
\* callback it requests, or -1 when it returns without a request
cursorAutoJump(isLivePreview, text, cursor) ==
    IF ~isLivePreview THEN -1 ELSE JumpTargetFrom(text, cursor, 0)

Selection(head, raf, frame) ==
    [fn |-> "cursor", head |-> head, raf |-> raf, frame |-> frame]

\* a block, then a start marker that no end marker follows
DocUnterminated == <<StartTok(1), NL, A, NL, EndTok, NL, StartTok(2), NL, Ch("x")>>
\* a start marker that no end marker follows, and no block
DocOnlyStart == <<StartTok(2), NL, Ch("x")>>

\* the documents with nothing, a newline, or a newline and text after them
CursorDocs ==
    UNION {{d, d \o <<NL>>, d \o <<NL, Ch("x")>>} : d \in InitDocs}
    \cup {DocUnterminated, DocOnlyStart}

InitCursor ==
    /\ doc \in CursorDocs
    /\ livePreview \in BOOLEAN
    /\ surfaces = [j \in 1..Len(DecoratedBlocks(livePreview, doc)) |->
                      NewSurface(DecoratedBlocks(livePreview, doc)[j])]
    /\ focus = NoFocus
    /\ picker = NoPicker
    /\ lastOp = NoOp
    /\ keys = 0
    /\ extEdits = [raw |-> 0, style |-> 0, del |-> 0]
    /\ call = Selection(0, -1, 0)

\* the user puts the cursor at offset p (click or arrow key) while no
\* relocation is pending; the update listener runs
PlaceCursor ==
    /\ call.raf = -1
    /\ \E p \in 0..Len(doc) :
          call' = Selection(p, cursorAutoJump(livePreview, doc, p), call.frame)
    /\ UNCHANGED <<doc, livePreview, surfaces, focus, picker, lastOp, keys, extEdits>>

\* the animation frame callback dispatches the selection; the update
\* listener runs on that transaction too
Relocate ==
    /\ call.raf # -1
    /\ call' = Selection(call.raf, cursorAutoJump(livePreview, doc, call.raf),
                         (call.frame + 1) % (MaxFrames + 1))
    /\ UNCHANGED <<doc, livePreview, surfaces, focus, picker, lastOp, keys, extEdits>>

\* the user types a character at the cursor while no relocation is
\* pending: one transaction with the insertion and the cursor after it; the
\* transaction filter may cancel it, otherwise the update listener runs
TypeAtCursor ==
    /\ call.raf = -1
    /\ call.head <= Len(doc)
    /\ ExtEditCount < MaxExtEdits
    /\ Len(doc) < MaxDocLen
    /\ \E t \in RawChars :
       \E change \in {[from |-> call.head, to |-> call.head, insert |-> <<t>>]} :
       \E d \in {Dispatch(doc, surfaces, focus, livePreview, change)} :
       \E c \in {Collect(d.surfaces, d.focus)} :
          /\ doc' = d.doc
          /\ surfaces' = c.surfaces
          /\ focus' = c.focus
          /\ lastOp' = Op("raw", 0, 0, TRUE, d.blocked, change)
          /\ call' = IF d.blocked THEN call
                     ELSE Selection(call.head + 1,
                                    cursorAutoJump(livePreview, d.doc, call.head + 1),
                                    call.frame)
    /\ extEdits' = [extEdits EXCEPT !.raw = extEdits.raw + 1]
    /\ UNCHANGED <<livePreview, picker, keys>>

NextCursor == PlaceCursor \/ Relocate \/ TypeAtCursor

\* every requested animation frame callback runs
SpecCursor == InitCursor /\ [][NextCursor]_vars /\ WF_vars(Relocate)

\* ------------------------------------------- the codec as pure functions
\* buildColumnsMarkdown and findColumnsBlocks applied to arguments drawn from
\* bounded sets; call holds the arguments and the results so far
SeqsUpTo(S, n) == UNION {[1..k -> S] : k \in 0..n}

ColumnChars == {Ch("a"), NL, SepTok}
ColumnTexts == SeqsUpTo(ColumnChars, MaxTextLen)
ColumnSeqs == SeqsUpTo(ColumnTexts, MaxColumnsLen)
StyleSeqs == SeqsUpTo(StyleTokens, MaxStyleLen)
RawTokens == {StartTok(0), StartTok(1), StartTok(MaxNumColumns),
              StartTok(MaxNumColumns + 1), EndTok, Ch("a")}
RawTexts == SeqsUpTo(RawTokens, MaxRawLen)

Call(fn, numColumns, columns, colors, borders, text, blocks) ==
    [fn |-> fn, numColumns |-> numColumns, columns |-> columns,
     colors |-> colors, borders |-> borders, text |-> text, blocks |-> blocks]

InitCodec ==
    /\ doc = <<>>
    /\ livePreview = FALSE
    /\ surfaces = <<>>
    /\ focus = NoFocus
    /\ picker = NoPicker
    /\ lastOp = NoOp
    /\ keys = 0
    /\ extEdits = [raw |-> 0, style |-> 0, del |-> 0]
    /\ \/ \E n \in 1..MaxNumColumns, cols \in ColumnSeqs,
             colors \in StyleSeqs, borders \in StyleSeqs :
             call = Call("args", n, cols, colors, borders, <<>>, <<>>)
       \/ \E text \in RawTexts :
             call = Call("text", 0, <<>>, <<>>, <<>>, text, <<>>)

\* buildColumnsMarkdown is applied to the arguments
Serialize ==
    /\ call.fn = "args"
    /\ call' = [call EXCEPT !.fn = "text",
                   !.text = buildColumnsMarkdown(call.numColumns, call.columns,
                                                 call.colors, call.borders)]
    /\ UNCHANGED <<doc, livePreview, surfaces, focus, picker, lastOp, keys, extEdits>>

\* findColumnsBlocks is applied to the text
Locate ==
    /\ call.fn = "text"
    /\ call' = [call EXCEPT !.fn = "located", !.blocks = findColumnsBlocks(call.text)]
    /\ UNCHANGED <<doc, livePreview, surfaces, focus, picker, lastOp, keys, extEdits>>

NextCodec == Serialize \/ Locate

SpecCodec == InitCodec /\ [][NextCodec]_vars

\* ------------------------------------- the locator on hand-written blocks
\* findColumnsBlocks applied to a block text and to a variant of it: the same
\* block with its colors line and its borders line exchanged, or with the end
\* marker written with one trailing percent
ColorsLine == <<ColorsTok(<<"g", "">>)>>
BordersLine == <<BordersTok(<<"", "g">>)>>
MetaLineSeqs == SeqsUpTo({<<>>, ColorsLine, BordersLine}, MaxMetaLines)
BodyTexts == SeqsUpTo(ColumnChars, MaxBodyLen)

BlockText(n, metaLines, body, endTok) ==
    JoinLines(<<(<<StartTok(n)>>)>> \o metaLines \o <<body, (<<endTok>>)>>)

\* the lines with every colors line turned into the borders line and back
SwapLines(metaLines) ==
    [i \in 1..Len(metaLines) |->
        IF metaLines[i] = ColorsLine THEN BordersLine
        ELSE IF metaLines[i] = BordersLine THEN ColorsLine
        ELSE metaLines[i]]

\* exactly one colors line and one borders line
OneOfEach(metaLines) ==
    /\ Cardinality({i \in 1..Len(metaLines) : metaLines[i] = ColorsLine}) = 1
    /\ Cardinality({i \in 1..Len(metaLines) : metaLines[i] = BordersLine}) = 1

InitLocate ==
    /\ doc = <<>>
    /\ livePreview = FALSE
    /\ surfaces = <<>>
    /\ focus = NoFocus
    /\ picker = NoPicker
    /\ lastOp = NoOp
    /\ keys = 0
    /\ extEdits = [raw |-> 0, style |-> 0, del |-> 0]
    /\ \E n \in 1..MaxNumColumns, metaLines \in MetaLineSeqs, body \in BodyTexts :
          \/ /\ OneOfEach(metaLines)
             /\ call = Call("swap", n, <<>>, <<>>, <<>>,
                             <<BlockText(n, metaLines, body, EndTok),
                               BlockText(n, SwapLines(metaLines), body, EndTok)>>,
                             <<>>)
          \/ call = Call("lenient", n, <<>>, <<>>, <<>>,
                          <<BlockText(n, metaLines, body, EndTok),
                            BlockText(n, metaLines, body, LenientEndTok)>>,
                          <<>>)

\* findColumnsBlocks is applied to the block and to the block with the
\* metadata lines exchanged
LocateSwapped ==
    /\ call.fn = "swap"
    /\ call' = [call EXCEPT !.fn = "swapLocated",
                   !.blocks = <<findColumnsBlocks(call.text[1]),
                                findColumnsBlocks(call.text[2])>>]
    /\ UNCHANGED <<doc, livePreview, surfaces, focus, picker, lastOp, keys, extEdits>>

\* findColumnsBlocks is applied to the block ending in "%%" and to the block
\* ending in "%"
LocateLenient ==
    /\ call.fn = "lenient"
    /\ call' = [call EXCEPT !.fn = "lenientLocated",
                   !.blocks = <<findColumnsBlocks(call.text[1]),
                                findColumnsBlocks(call.text[2])>>]
    /\ UNCHANGED <<doc, livePreview, surfaces, focus, picker, lastOp, keys, extEdits>>

\* buildDecorations in live preview on each of the two texts: every located
\* block with the decorations added for it
Decorate ==
    /\ call.fn \in {"swapLocated", "lenientLocated"}
    /\ call' = [call EXCEPT !.fn = "decorated",
                   !.blocks = [p \in 1..2 |->
                       [k \in 1..Len(call.blocks[p]) |->
                           [block |-> call.blocks[p][k],
                            ranges |-> BlockRanges(call.blocks[p][k],
                                                   Len(call.text[p]))]]]]
    /\ UNCHANGED <<doc, livePreview, surfaces, focus, picker, lastOp, keys, extEdits>>

NextLocate == LocateSwapped \/ LocateLenient \/ Decorate

SpecLocate == InitLocate /\ [][NextLocate]_vars

\* ------------------------------------------------------------------ claims
\* the call went through buildColumnsMarkdown
Built == call.fn \in {"text", "located"} /\ call.numColumns > 0
\* the call went through buildColumnsMarkdown and findColumnsBlocks
BuiltAndLocated == call.fn = "located" /\ call.numColumns > 0

\* a styles sequence with the missing tokens read as empty ones
NormStyles(styles, n) == [i \in 1..n |-> IF i <= Len(styles) THEN styles[i] ELSE ""]
\* the columns padded and truncated to n
NormColumns(columns, n) == [i \in 1..n |-> IF i <= Len(columns) THEN columns[i] ELSE <<>>]
HasSepLine(columns) ==
    \E i \in 1..Len(columns) :
        \E j \in 1..Len(SplitLines(columns[i])) : IsSepLine(SplitLines(columns[i])[j])

EndFollows(text, p) == \E q \in (p + 1)..Len(text) : text[q].k = "end"
\* a block was emitted for the start marker at index p
EmittedAt(blocks, p) == \E j \in 1..Len(blocks) : blocks[j].startPos = p - 1
\* the start marker at index p lies inside the span of an emitted block
InsideEmitted(blocks, p) ==
    \E j \in 1..Len(blocks) : blocks[j].startPos < p - 1 /\ p - 1 < blocks[j].endPos

\* C8 as stated: a block is emitted for a start marker that is followed by
\* an end marker if and only if 1 <= N <= 6.
C8_BlockIffInRange ==
    call.fn = "located" =>
        \A p \in 1..Len(call.text) :
            (call.text[p].k = "start" /\ EndFollows(call.text, p)) =>
                (EmittedAt(call.blocks, p) <=> call.text[p].n \in 1..6)

\* C8: a block is emitted for a start marker that is followed by an end
\* marker and does not lie inside the span of another emitted block if and
\* only if 1 <= N <= 6; a start marker with N outside 1..6 never yields a
\* block, and every emitted block starts at a start marker, ends at an end
\* marker and has the marker's count.
C8_BlockIffInRangeOutsideBlocks ==
    call.fn = "located" =>
        /\ \A p \in 1..Len(call.text) :
               (/\ call.text[p].k = "start"
                /\ EndFollows(call.text, p)
                /\ ~InsideEmitted(call.blocks, p)) =>
                   (EmittedAt(call.blocks, p) <=> call.text[p].n \in 1..6)
        /\ \A p \in 1..Len(call.text) :
               (call.text[p].k = "start" /\ call.text[p].n \notin 1..6) =>
                   ~EmittedAt(call.blocks, p)
        /\ \A j \in 1..Len(call.blocks) :
               /\ call.text[call.blocks[j].startPos + 1].k = "start"
               /\ call.text[call.blocks[j].startPos + 1].n = call.blocks[j].numColumns
               /\ call.text[call.blocks[j].endPos].k = "end"
               /\ call.blocks[j].numColumns \in 1..6

\* a text with a start marker of count 7 and one of count 6, each followed
\* by an end marker, has been located, and only the latter gave a block
C8_Witness ==
    /\ call.fn = "located"
    /\ call.text = <<StartTok(7), EndTok, StartTok(6), EndTok>>
    /\ Len(call.blocks) = 1
    /\ call.blocks[1].startPos = 2

AllEmpty(styles) == \A i \in 1..Len(styles) : styles[i] = ""
HasToken(text, kind) == \E p \in 1..Len(text) : text[p].k = kind

\* C10: the built text has no colors line when every token of the colors
\* sequence is empty, and no borders line when every token of the borders
\* sequence is empty, also when the sequence is not empty.
C10_NoAllEmptyMetadataLine ==
    Built =>
        /\ AllEmpty(call.colors) => ~HasToken(call.text, "colors")
        /\ AllEmpty(call.borders) => ~HasToken(call.text, "borders")

\* ---------------------------------------------------- claims on the editor
FlushOps == {"blur", "timer"}
\* no edit has been made outside the surfaces
NoExternalEdit == extEdits.raw = 0 /\ extEdits.style = 0 /\ extEdits.del = 0
\* the surface whose handler ran in the last step
LastSurface == surfaces[lastOp.s]

\* C1: in a run without edits from outside the surfaces, once the debounce
\* timer of a live surface has fired and none is pending any more, the
\* column texts of the block the surface renders equal the pane buffers.
C1_DebouncedFlushReachesDocument ==
    (/\ NoExternalEdit
     /\ lastOp.op = "timer"
     /\ lastOp.s \in 1..Len(surfaces)
     /\ LastSurface.alive
     /\ LastSurface.timers = {}) =>
        \A b \in BlocksAt(doc, LastSurface.pos) :
            b.columns = LastSurface.columnContents

\* the text of pane i of surface s as the blur handler reads it
EditedText(s, i) == Trim(InnerText(surfaces[s].panes[i]))
\* the text inserted by a change carries the given text as column i
Carries(change, i, text) ==
    \E j \in 1..Len(findColumnsBlocks(change.insert)) :
        findColumnsBlocks(change.insert)[j].columns[i] = text

\* C2: when a pane whose debounce timer is still pending, and whose text
\* differs from the column text in the document, loses focus, the blur
\* handler dispatches a mutation that carries the pane's text.
C2_BlurFlushesEditedText ==
    [][(/\ lastOp'.op = "blur"
        /\ lastOp'.i \in surfaces[lastOp'.s].timers
        /\ \A b \in BlocksAt(doc, surfaces[lastOp'.s].pos) :
               b.columns[lastOp'.i] # EditedText(lastOp'.s, lastOp'.i))
       => (/\ lastOp'.dispatched
           /\ Carries(lastOp'.change, lastOp'.i,
                      EditedText(lastOp'.s, lastOp'.i)))]_vars

\* C3: two consecutive flush requests of one surface, with no keystroke
\* between them, dispatch at most one mutation in total.
C3_ConsecutiveFlushesOneMutation ==
    [][(/\ lastOp.op \in FlushOps
        /\ lastOp'.op \in FlushOps
        /\ lastOp'.s = lastOp.s)
       => ~(lastOp.dispatched /\ lastOp'.dispatched)]_vars

\* C5: a flush of a live surface leaves all text before the block the
\* surface renders, and all text after it, as it was.
C5_FlushChangesOwnBlockOnly ==
    [][(/\ lastOp'.op \in FlushOps
        /\ lastOp'.dispatched
        /\ surfaces[lastOp'.s].alive)
       => \A b \in BlocksAt(doc, surfaces[lastOp'.s].pos) :
              /\ Len(doc') >= Len(doc) - (b.endPos - b.startPos)
              /\ Slice(doc', 0, b.startPos) = Slice(doc, 0, b.startPos)
              /\ Slice(doc', Len(doc') - (Len(doc) - b.endPos), Len(doc'))
                     = Slice(doc, b.endPos, Len(doc))]_vars

\* C6: when a style has been applied through the picker after the surface
\* was created, a flush of the surface leaves the colors and borders
\* located for its block as they were.
C6_FlushKeepsStyle ==
    [][(/\ lastOp'.op \in FlushOps
        /\ lastOp'.dispatched
        /\ ~lastOp'.blocked
        /\ extEdits.style > 0
        /\ surfaces[lastOp'.s].alive)
       => \A b \in BlocksAt(doc, surfaces[lastOp'.s].pos) :
              \E b2 \in BlocksAt(doc', MapPos(b.startPos, lastOp'.change)) :
                  /\ NormStyles(b2.colors, b.numColumns)
                         = NormStyles(b.colors, b.numColumns)
                  /\ NormStyles(b2.borders, b.numColumns)
                         = NormStyles(b.borders, b.numColumns)]_vars

\* the offset where the line that holds offset p ends
LineEnd(text, p) ==
    IF ExecFrom(text, "nl", p) = -1 THEN Len(text) ELSE ExecFrom(text, "nl", p)

\* C7: in live preview a raw change that starts after the start marker line
\* of a located block and inside the block is rejected and the document is
\* unchanged; one that starts within the start marker line, up to and
\* including its end, is accepted.
C7_FilterRejectsHiddenAcceptsFirstLine ==
    [][(lastOp'.op = "raw" /\ livePreview)
       => \A j \in 1..Len(findColumnsBlocks(doc)) :
              /\ (/\ lastOp'.change.from > LineEnd(doc, findColumnsBlocks(doc)[j].startPos)
                  /\ lastOp'.change.from < findColumnsBlocks(doc)[j].endPos)
                 => (lastOp'.blocked /\ doc' = doc)
              /\ (/\ lastOp'.change.from >= findColumnsBlocks(doc)[j].startPos
                  /\ lastOp'.change.from <= LineEnd(doc, findColumnsBlocks(doc)[j].startPos))
                 => ~lastOp'.blocked]_vars

\* offset p lies inside a region that a start marker with a count outside
\* 1..6 opens and the next end marker closes
InOutOfRangeRegion(text, p) ==
    \E m \in 1..Len(text) :
        /\ text[m].k = "start"
        /\ text[m].n \notin 1..6
        /\ m <= p
        /\ ExecFrom(text, "end", m) # -1
        /\ p <= ExecFrom(text, "end", m)
\* offset p lies in the span of a located block
InLocatedBlock(text, p) ==
    \E j \in 1..Len(findColumnsBlocks(text)) :
        /\ findColumnsBlocks(text)[j].startPos <= p
        /\ p <= findColumnsBlocks(text)[j].endPos

\* C9: a region opened by a start marker with a count outside 1..6 is
\* ordinary text: no surface stands on its start marker, and a raw change
\* at an offset inside it, outside every located block, is accepted.
C9_OutOfRangeRegionIsOrdinaryText ==
    [][/\ \A s \in 1..Len(surfaces) :
              (surfaces[s].alive /\ surfaces[s].pos < Len(doc))
                  => ~(doc[surfaces[s].pos + 1].k = "start"
                       /\ doc[surfaces[s].pos + 1].n \notin 1..6)
       /\ (/\ lastOp'.op = "raw"
           /\ InOutOfRangeRegion(doc, lastOp'.change.from)
           /\ ~InLocatedBlock(doc, lastOp'.change.from))
          => ~lastOp'.blocked]_vars

\* ------------------------------------------- claims on hand-written blocks
\* the logical content of a located block
Logical(b) == [numColumns |-> b.numColumns, columns |-> b.columns,
               colors |-> b.colors, borders |-> b.borders]
SameLogical(bs1, bs2) ==
    /\ Len(bs1) = Len(bs2)
    /\ \A i \in 1..Len(bs1) : Logical(bs1[i]) = Logical(bs2[i])

\* C11: exchanging the colors line and the borders line of a block text gives
\* a located block with the same column count, columns, colors and borders
C11_SwappedMetadataSameBlock ==
    call.fn = "swapLocated" => SameLogical(call.blocks[1], call.blocks[2])

\* a block with a colors line before its borders line and a non-empty column
\* was located in both orders
C11_Witness ==
    /\ call.fn = "swapLocated"
    /\ call.text[1] # call.text[2]
    /\ call.text[1][3] = ColorsLine[1]
    /\ Len(call.blocks[1]) = 1
    /\ call.blocks[2][1].colors = <<"g", "">>
    /\ call.blocks[2][1].borders = <<"", "g">>
    /\ call.blocks[2][1].columns[1] # <<>>

\* C12: an end marker with one trailing percent and one with two both
\* terminate the block, and the located block has the same column count,
\* columns, colors and borders
C12_LenientEndSameBlock ==
    call.fn = "lenientLocated" =>
        /\ Len(call.blocks[1]) = 1
        /\ Len(call.blocks[2]) = 1
        /\ SameLogical(call.blocks[1], call.blocks[2])

\* a block with metadata and a non-empty column, ending in "%", was located
C12_Witness ==
    /\ call.fn = "lenientLocated"
    /\ call.text[2][Len(call.text[2])] = LenientEndTok
    /\ Len(call.blocks[2]) = 1
    /\ call.blocks[2][1].endPos = Len(call.text[2])
    /\ call.blocks[2][1].colors = <<"g", "">>
    /\ call.blocks[2][1].columns[1] # <<>>

\* the text of a hand-written block between its last marker or metadata line
\* and its end marker
LastHeader(text) ==
    Max({i \in 1..Len(text) : text[i].k \in {"start", "colors", "borders"}})
BodyOf(text) == SubSeq(text, LastHeader(text) + 1, Len(text) - 1)
\* the separator lines of a body, as line numbers, with 0 in front
SepLineNumbers(lines) ==
    {0} \cup {i \in 1..Len(lines) : Trim(lines[i]) = <<SepTok>>}
\* the lines after the (i-1)th separator line up to the next one
PartLines(lines, i) ==
    LET seps == SepLineNumbers(lines)
        first == CHOOSE k \in seps : Cardinality({j \in seps : j < k}) = i - 1
        later == {j \in seps : j > first}
        last == IF later = {} THEN Len(lines) + 1 ELSE Min(later)
    IN SubSeq(lines, first + 1, last - 1)
ExpectedColumn(text, i) ==
    LET lines == SplitLines(BodyOf(text))
    IN IF i > Cardinality(SepLineNumbers(lines)) THEN <<>>
       ELSE Trim(JoinLines(PartLines(lines, i)))
HasMetadataLine(text) ==
    \E i \in 1..Len(text) : text[i].k \in {"colors", "borders"}
LocatedPairs ==
    IF call.fn \in {"swapLocated", "lenientLocated"} THEN {1, 2} ELSE {}

\* C13: every located block has exactly numColumns columns, column i being
\* the trimmed text between the (i-1)th and the i-th separator line of the
\* body, empty when the body has fewer parts, parts beyond numColumns being
\* dropped; without metadata lines colors and borders are empty
C13_ColumnsAreTrimmedPartsOfBody ==
    \A p \in LocatedPairs :
        \A k \in 1..Len(call.blocks[p]) :
            LET b == call.blocks[p][k]
            IN /\ Len(b.columns) = b.numColumns
               /\ \A i \in 1..b.numColumns :
                      b.columns[i] = ExpectedColumn(call.text[p], i)
               /\ ~HasMetadataLine(call.text[p]) =>
                      b.colors = <<>> /\ b.borders = <<>>

\* a three-column block without metadata whose body has two parts, the
\* first one with a trailing newline, was located
C13_Witness ==
    /\ call.fn = "lenientLocated"
    /\ call.text[1] = <<StartTok(3), NL, Ch("a"), NL, SepTok, NL, EndTok>>
    /\ call.blocks[1][1].columns = <<(<<Ch("a")>>), <<>>, <<>>>>
    /\ call.blocks[1][1].colors = <<>>

\* ---------------------------------------- claims on the surface life cycle
\* the step is a raw edit that the transaction filter let through
RawEditStep == extEdits'.raw = extEdits.raw + 1 /\ ~lastOp'.blocked
\* the change lies outside the span of block b
Outside(change, b) == change.to <= b.startPos \/ change.from >= b.endPos

\* C14: after a change outside a block the widget built for the block in the
\* new document is eq to the one of the old document although its offsets
\* may differ, and the surface keeps its DOM, its pane and column buffers
\* and its pending flush
C14_OutsideEditKeepsSurface ==
    [][RawEditStep =>
        \A s \in 1..Len(surfaces) :
            \A b \in BlocksAt(doc, surfaces[s].pos) :
                surfaces[s].alive /\ Outside(lastOp'.change, b) =>
                    \E t \in 1..Len(surfaces') :
                        /\ surfaces'[t] =
                              [surfaces[s] EXCEPT
                                  !.pos = MapPos(surfaces[s].pos, lastOp'.change),
                                  !.superseded = surfaces'[t].superseded]
                        /\ BlocksAt(doc', surfaces'[t].pos) # {}
                        /\ \A nb \in BlocksAt(doc', surfaces'[t].pos) : eq(nb, b)
    ]_vars

\* text was inserted in front of a block whose pane holds typed text that
\* is not flushed yet: the surface moved and still holds it
C14_Witness ==
    /\ lastOp.op = "raw"
    /\ ~lastOp.blocked
    /\ lastOp.change.insert # <<>>
    /\ \E s \in 1..Len(surfaces) :
          /\ surfaces[s].alive
          /\ surfaces[s].timers # {}
          /\ surfaces[s].pos > surfaces[s].block.startPos
          /\ lastOp.change.from <= surfaces[s].block.startPos
          /\ \E i \in 1..Len(surfaces[s].panes) :
                surfaces[s].panes[i].text # surfaces[s].block.columns[i]

\* C15: when a raw edit changes the column count or a column text of a block
\* that has a live surface, the surface shown for the block afterwards holds
\* the document's current column texts in its panes and buffers
C15_ChangedBlockSurfaceIsRebuilt ==
    [][RawEditStep =>
        \A s \in 1..Len(surfaces) : \A t \in 1..Len(surfaces') :
            \A b \in BlocksAt(doc, surfaces[s].pos) :
                \A nb \in BlocksAt(doc', surfaces'[t].pos) :
                    (/\ surfaces[s].alive
                     /\ surfaces'[t].alive
                     /\ surfaces'[t].pos = MapPos(surfaces[s].pos, lastOp'.change)
                     /\ ~eq(nb, b))
                    => /\ surfaces'[t].columnContents = nb.columns
                       /\ \A i \in 1..nb.numColumns :
                              surfaces'[t].panes[i].text = nb.columns[i]
    ]_vars

\* the span of block b and the newline after it, if there is one
SpanAndNewline(text, b) ==
    [from |-> b.startPos,
     to |-> IF b.endPos < Len(text) /\ text[b.endPos + 1] = NL
            THEN b.endPos + 1 ELSE b.endPos,
     insert |-> <<>>]

\* C16: Delete or Backspace on a focused container issues one mutation that
\* removes the current span of the surface's block and one newline after it,
\* also after earlier edits that moved the block
C16_DeleteRemovesCurrentSpan ==
    [][extEdits'.del = extEdits.del + 1 =>
        \A b \in BlocksAt(doc, surfaces[lastOp'.s].pos) :
            /\ lastOp'.dispatched
            /\ lastOp'.change = SpanAndNewline(doc, b)
            /\ doc' = ApplyChange(doc, SpanAndNewline(doc, b))
    ]_vars

\* ----------------------------------------------- claims on pane navigation
\* nextIndex applied k times
RECURSIVE Tabs(_, _, _)
Tabs(columnIndex, length, k) ==
    IF k = 0 THEN columnIndex
    ELSE Tabs(nextIndex(columnIndex, length, FALSE), length, k - 1)

TabStep == lastOp'.op \in {"tab", "shiftTab"} /\ lastOp' # lastOp

RECURSIVE InHiddenTextFrom(_, _, _)
InHiddenTextFrom(text, p, lastIndex) ==
    LET m == ExecFrom(text, "start", lastIndex)
        e == ExecFrom(text, "end", m + 1)
    IN IF m = -1 THEN FALSE
       ELSE (e # -1 /\ p > m + 1 /\ p < e + 1)
            \/ InHiddenTextFrom(text, p, m + 1)

CursorHidden == livePreview /\ InHiddenTextFrom(doc, call.head, 0)

\* C18: a cursor placed inside the hidden text of a block in live preview is
\* eventually outside all hidden text with no relocation pending
C18_CursorLeavesHiddenRegion ==
    CursorHidden ~> (~CursorHidden /\ call.raf = -1)

\* ------------------------------------------------ claims on the overlay
\* C19: for every located block with a non-empty clamped span the overlay
\* adds a zero-width widget at from, then hidden ranges over the start
\* marker with the metadata, over the body and over the end marker, each
\* with start < end, each beginning where the one before ends, covering
\* exactly [from, to)
C19_RangesTileTheSpan ==
    call.fn = "decorated" =>
        \A p \in 1..2 : \A k \in 1..Len(call.blocks[p]) :
            LET b == call.blocks[p][k].block
                r == call.blocks[p][k].ranges
                from == MathMax(0, MathMin(b.startPos, Len(call.text[p])))
                to == MathMax(from, MathMin(b.endPos, Len(call.text[p])))
            IN from # to =>
                 /\ Len(r) = 4
                 /\ r[1] = Range(from, from, "widget")
                 /\ r[2].class = "live-columns-marker-hidden"
                 /\ r[3].class = "live-columns-body-hidden"
                 /\ r[4].class = "live-columns-marker-hidden"
                 /\ r[2].from = from
                 /\ r[2].from < r[2].to
                 /\ r[3].from = r[2].to
                 /\ r[3].from < r[3].to
                 /\ r[4].from = r[3].to
                 /\ r[4].from < r[4].to
                 /\ r[4].to = to

\* ------------------------------------------------ claims on the flush guard
\* C20: the in-progress guard of a surface is false whenever a flush has
\* returned: after the no-change return, after a dispatch and after an
\* exception in extraction, serialization or dispatch
C20_GuardNeverLeftSet ==
    \A s \in 1..Len(surfaces) : ~surfaces[s].isUpdating

\* a flush of a surface with typed text has just thrown: the guard is clear
C20_Witness ==
    /\ lastOp.op = "timerThrows"
    /\ lastOp.s \in 1..Len(surfaces)
    /\ surfaces[lastOp.s].alive
    /\ surfaces[lastOp.s].container
    /\ ~surfaces[lastOp.s].isUpdating
    /\ surfaces[lastOp.s].columnContents # surfaces[lastOp.s].block.columns

\* ------------------------------------------------- claims on the flush span
\* the step is a flush that dispatched a change
FlushStep ==
    /\ lastOp'.op \in {"blur", "timer", "tab", "shiftTab"}
    /\ lastOp'.dispatched
    /\ lastOp' # lastOp
\* offset p is one of the offsets of a located block
InBlockSpan(text, p) ==
    \E j \in 1..Len(findColumnsBlocks(text)) :
        /\ findColumnsBlocks(text)[j].startPos <= p
        /\ p < findColumnsBlocks(text)[j].endPos

\* C21: a flush that finds no block with the surface's column count in the
\* document replaces no text that is outside every located block
C21_StaleFlushKeepsOtherText ==
    [][(/\ FlushStep
        /\ ~SyncFindBlock(doc, surfaces[lastOp'.s].block.numColumns, 0).found)
       => \A p \in lastOp'.change.from..(lastOp'.change.to - 1) :
              InBlockSpan(doc, p)
    ]_vars

\* ------------------------------------------- claims on style application
\* the picker's callback runs on the document the picker was opened on
StyleStep ==
    /\ extEdits'.style = extEdits.style + 1
    /\ picker.doc = doc
\* styles compared with the missing trailing tokens taken as empty
Padded(items, n) == [i \in 1..n |-> IF i <= Len(items) THEN items[i] ELSE ""]

\* C22: choosing a token for column k changes index k of the chosen kind of
\* the targeted block and nothing else: the other color and border tokens,
\* the column count, the column contents and the text outside the block
\* are as before
C22_StyleChangesOnlyMetadata ==
    [][StyleStep =>
        \A b \in BlocksAt(doc, picker.startPos) :
            /\ Slice(doc', 0, b.startPos) = Slice(doc, 0, b.startPos)
            /\ Slice(doc', Len(doc') - (Len(doc) - b.endPos), Len(doc'))
                  = Slice(doc, b.endPos, Len(doc))
            /\ BlocksAt(doc', b.startPos) # {}
            /\ \A nb \in BlocksAt(doc', b.startPos) :
                  /\ nb.numColumns = b.numColumns
                  /\ nb.columns = b.columns
                  /\ nb.endPos - Len(doc') = b.endPos - Len(doc)
                  /\ \E token \in StyleTokens :
                        LET k == picker.columnIndex + 1
                            n == b.numColumns
                            oldColors == Padded(b.colors, n)
                            oldBorders == Padded(b.borders, n)
                        IN IF picker.type = "color"
                           THEN /\ Padded(nb.colors, n) = [oldColors EXCEPT ![k] = token]
                                /\ Padded(nb.borders, n) = oldBorders
                           ELSE /\ Padded(nb.borders, n) = [oldBorders EXCEPT ![k] = token]
                                /\ Padded(nb.colors, n) = oldColors
    ]_vars

\* -------------------------------------------- claims on flush requests
\* the step is a flush request of a surface: blur, debounce timer or Tab
FlushRequest ==
    /\ lastOp'.op \in {"blur", "timer", "tab", "shiftTab"}
    /\ lastOp' # lastOp

\* C23: a flush request of a surface whose panes all hold the column texts
\* of its block in the document dispatches nothing, and the document is
\* unchanged
C23_NoChangeNoMutation ==
    [][FlushRequest =>
        \A b \in BlocksAt(doc, surfaces[lastOp'.s].pos) :
            (/\ surfaces[lastOp'.s].alive
             /\ \A i \in 1..b.numColumns :
                    Trim(InnerText(surfaces[lastOp'.s].panes[i])) = b.columns[i])
            => ~lastOp'.dispatched /\ doc' = doc
    ]_vars

\* ------------------------------------------------ claims on the flush range
\* the range of the change is the span of a block the locator finds in text
IsLocatedSpan(text, change) ==
    \E j \in 1..Len(findColumnsBlocks(text)) :
        /\ findColumnsBlocks(text)[j].startPos = change.from
        /\ findColumnsBlocks(text)[j].endPos = change.to

\* C24: every flush that dispatches a change replaces the span of a block
\* located in the document as it is at the flush
C24_FlushRangeIsLocatedSpan ==
    [][FlushStep => IsLocatedSpan(doc, lastOp'.change)]_vars

\* ------------------------------------------- syncToSource, step by step
\* The calls of syncToSource that have not returned yet are the frames of
\* call.stack, the innermost first. A frame is at the guard, at the reading
\* of the panes, at view.dispatch or at the finally block.
Frame(s, i, pc, change) == [s |-> s, i |-> i, pc |-> pc, change |-> change]
SyncCall(stack) == [fn |-> "sync", stack |-> stack]
Idle == call.stack = <<>>
Top == call.stack[1]

\* syncToSource, the guard without the in-progress flag
GuardedNoFlag(surf) == ~surf.container

\* if (this.isUpdating || !this.container) return;
Guarded(surf) == surf.isUpdating \/ ~surf.container

InitSync ==
    /\ doc \in InitDocs
    /\ livePreview = TRUE
    /\ surfaces = [j \in 1..Len(DecoratedBlocks(livePreview, doc)) |->
                      NewSurface(DecoratedBlocks(livePreview, doc)[j])]
    /\ focus = NoFocus
    /\ picker = NoPicker
    /\ lastOp = NoOp
    /\ keys = 0
    /\ extEdits = [raw |-> 0, style |-> 0, del |-> 0]
    /\ call = SyncCall(<<>>)

\* the focus and input handlers run while no flush is executing
SyncFocus == Idle /\ Focusing
SyncInput == Idle /\ Typing

\* the debounce timer of pane i fires: syncToSource is called
SyncTimer ==
    /\ Idle
    /\ \E s \in 1..Len(surfaces) : \E i \in surfaces[s].timers :
          /\ surfaces' = [surfaces EXCEPT ![s].timers = surfaces[s].timers \ {i}]
          /\ call' = SyncCall(<<Frame(s, i, "guard", NoChange)>>)
          /\ lastOp' = Op("timer", s, i, FALSE, FALSE, NoChange)
    /\ UNCHANGED <<doc, livePreview, focus, picker, keys, extEdits>>

\* the blur handler of pane i up to its call of syncToSource
BlurHandler(surf, i) ==
    [surf EXCEPT !.columnContents[i] = Trim(InnerText(surf.panes[i])),
                 !.panes[i] = setColumnContent(Trim(InnerText(surf.panes[i])), FALSE)]

\* the focused pane loses the focus: its blur handler calls syncToSource
SyncBlur ==
    /\ Idle
    /\ focus # NoFocus
    /\ surfaces' = [surfaces EXCEPT
           ![focus[1]] = BlurHandler(surfaces[focus[1]], focus[2])]
    /\ focus' = NoFocus
    /\ call' = SyncCall(<<Frame(focus[1], focus[2], "guard", NoChange)>>)
    /\ lastOp' = Op("blur", focus[1], focus[2], FALSE, FALSE, NoChange)
    /\ UNCHANGED <<doc, livePreview, picker, keys, extEdits>>

\* the first statements of syncToSource: return at once, or set the flag
SyncGuard ==
    /\ ~Idle
    /\ Top.pc = "guard"
    /\ IF Guarded(surfaces[Top.s])
       THEN /\ call' = SyncCall(Tail(call.stack))
            /\ lastOp' = Op("guarded", Top.s, Top.i, FALSE, FALSE, NoChange)
            /\ UNCHANGED surfaces
       ELSE /\ surfaces' = [surfaces EXCEPT ![Top.s] = Enter(surfaces[Top.s])]
            /\ call' = SyncCall(<<[Top EXCEPT !.pc = "read"]>> \o Tail(call.stack))
            /\ UNCHANGED lastOp
    /\ UNCHANGED <<doc, livePreview, focus, picker, keys, extEdits>>

\* the panes are read and compared; without a change syncToSource returns,
\* with one it builds the transaction
SyncRead ==
    /\ ~Idle
    /\ Top.pc = "read"
    /\ \E r \in {SyncContents(surfaces[Top.s], doc,
                      [i \in 1..Len(surfaces[Top.s].panes) |->
                          extractContent(InnerHTML(surfaces[Top.s].panes[i]))])} :
          IF r.dispatch
          THEN /\ surfaces' = [surfaces EXCEPT ![Top.s] = Enter(r.surf)]
               /\ call' = SyncCall(<<[Top EXCEPT !.pc = "dispatch",
                                                 !.change = r.change]>>
                                   \o Tail(call.stack))
               /\ lastOp' = Op("read", Top.s, Top.i, FALSE, FALSE, NoChange)
          ELSE /\ surfaces' = [surfaces EXCEPT ![Top.s] = r.surf]
               /\ call' = SyncCall(Tail(call.stack))
               /\ lastOp' = Op("noChange", Top.s, Top.i, FALSE, FALSE, NoChange)
    /\ UNCHANGED <<doc, livePreview, focus, picker, keys, extEdits>>

\* view.dispatch(transaction): the document and the widgets are updated;
\* when the focus is in a pane of the flushing surface, the update may take
\* the focus away, and the blur handler then calls syncToSource before
\* view.dispatch has returned
SyncDispatch ==
    /\ ~Idle
    /\ Top.pc = "dispatch"
    /\ \E d \in {Dispatch(doc, surfaces, focus, livePreview, Top.change)} :
       \E blurs \in {b \in BOOLEAN : b => (focus # NoFocus /\ focus[1] = Top.s)} :
          /\ doc' = d.doc
          /\ lastOp' = Op("dispatch", Top.s, Top.i, TRUE, d.blocked, Top.change)
          /\ IF blurs
             THEN /\ surfaces' = [d.surfaces EXCEPT
                         ![Top.s] = BlurHandler(d.surfaces[Top.s], focus[2])]
                  /\ focus' = NoFocus
                  /\ call' = SyncCall(<<Frame(Top.s, focus[2], "guard", NoChange),
                                        [Top EXCEPT !.pc = "finally"]>>
                                      \o Tail(call.stack))
             ELSE /\ surfaces' = d.surfaces
                  /\ focus' = d.focus
                  /\ call' = SyncCall(<<[Top EXCEPT !.pc = "finally"]>>
                                      \o Tail(call.stack))
    /\ UNCHANGED <<livePreview, picker, keys, extEdits>>

\* finally { this.isUpdating = false; }
SyncFinally ==
    /\ ~Idle
    /\ Top.pc = "finally"
    /\ surfaces' = [surfaces EXCEPT ![Top.s] = Exit(surfaces[Top.s], "dispatched")]
    /\ call' = SyncCall(Tail(call.stack))
    /\ lastOp' = Op("finally", Top.s, Top.i, FALSE, FALSE, NoChange)
    /\ UNCHANGED <<doc, livePreview, focus, picker, keys, extEdits>>

NextSync ==
    \/ SyncFocus \/ SyncInput \/ SyncTimer \/ SyncBlur
    \/ SyncGuard \/ SyncRead \/ SyncDispatch \/ SyncFinally

SpecSync == InitSync /\ [][NextSync]_vars

\* the calls of syncToSource of surface s that are past the guard
InFlight(s) == {k \in 1..Len(call.stack) :
                   call.stack[k].s = s /\ call.stack[k].pc # "guard"}
\* a call of syncToSource is at the guard while another call for the same
\* surface has not returned
Reentered ==
    /\ Len(call.stack) >= 2
    /\ Top.pc = "guard"
    /\ call.stack[2].s = Top.s

\* C25: a surface never has two flushes past the guard at once, and a call
\* of syncToSource made while another call for the same surface has not
\* returned returns at once: it changes neither the document nor the
\* surface (no pane is read, no timer is set) and dispatches nothing
C25_OneFlushInFlight ==
    /\ [](\A s \in 1..Len(surfaces) : Cardinality(InFlight(s)) <= 1)
    /\ [][Reentered => /\ doc' = doc
                       /\ surfaces' = surfaces
                       /\ call'.stack = Tail(call.stack)
                       /\ ~lastOp'.dispatched]_vars

\* the blur fired by the flush's own dispatch has returned at the guard and
\* the flush that dispatched is at its finally block
C25_Witness ==
    /\ lastOp.op = "guarded"
    /\ Len(call.stack) = 1
    /\ Top.s = lastOp.s
    /\ Top.pc = "finally"
    /\ surfaces[Top.s].isUpdating

\* ------------------------------------------------- claims on the debounce
\* C26: at any time a surface has at most one debounced flush pending
C26_OneDebouncePending ==
    \A s \in 1..Len(surfaces) : Cardinality(surfaces[s].timers) <= 1

\* ------------------------------------------------ claims on range bounds
\* 0 <= from <= to <= length
InBounds(range, length) ==
    0 <= range.from /\ range.from <= range.to /\ range.to <= length
\* the step is a press of Delete or Backspace on a surface's container
DeleteStep == extEdits'.del = extEdits.del + 1

\* C27: the range of every flush replace and of every delete-block change
\* lies within the document it is applied to, and so does every decoration
\* range built for the document
C27_RangesWithinDocument ==
    /\ [](\A j \in 1..Len(findColumnsBlocks(doc)) :
            \A k \in 1..Len(BlockRanges(findColumnsBlocks(doc)[j], Len(doc))) :
                InBounds(BlockRanges(findColumnsBlocks(doc)[j], Len(doc))[k],
                         Len(doc)))
    /\ [][(FlushStep \/ DeleteStep) => InBounds(lastOp'.change, Len(doc))]_vars

\* ---------------------------------------------- claims on the block spans
\* the 1-based places of text between the markers of the block
IsStart(tok) == tok.k = "start"
IsEnd(tok) == tok.k = "end"
Inside(block) == (block.startPos + 2)..(block.endPos - 1)

\* C28: every block the locator returns ends at the first end marker after
\* its start marker, and the spans of the blocks of one pass are disjoint
\* and in strictly increasing order, so no block starts inside another; a
\* start marker between the markers of a block is text of one of its columns
C28_BlocksDoNotNest ==
    call.fn = "located" =>
        /\ \A j \in 1..Len(call.blocks) :
              /\ call.blocks[j].startPos < call.blocks[j].endPos
              /\ IsStart(call.text[call.blocks[j].startPos + 1])
              /\ IsEnd(call.text[call.blocks[j].endPos])
              /\ \A p \in Inside(call.blocks[j]) :
                    /\ ~IsEnd(call.text[p])
                    /\ IsStart(call.text[p]) =>
                          \E i \in 1..Len(call.blocks[j].columns) :
                          \E q \in 1..Len(call.blocks[j].columns[i]) :
                              call.blocks[j].columns[i][q] = call.text[p]
        /\ \A j \in 1..(Len(call.blocks) - 1) :
              call.blocks[j].endPos <= call.blocks[j + 1].startPos

\* a start marker with a count in range lies inside a located block
C28_Witness ==
    /\ call.fn = "located"
    /\ \E j \in 1..Len(call.blocks) : \E p \in Inside(call.blocks[j]) :
          IsStart(call.text[p]) /\ NumInRange(call.text[p].n)

\* ------------------------------------- claims on unterminated start markers
\* offset p holds a start marker that no end marker follows
Unterminated(p) ==
    /\ p < Len(doc)
    /\ IsStart(doc[p + 1])
    /\ ExecFrom(doc, "end", p + 1) = -1
\* the step is a character typed at the cursor
TypeStep == extEdits'.raw = extEdits.raw + 1

\* C29: for a start marker that no end marker follows the locator returns
\* no block, the overlay hides no range at or after it, a cursor placed after
\* it is not relocated, and a character typed after it is inserted there
C29_UnterminatedStartIsText ==
    /\ [](\A p \in 0..Len(doc) : Unterminated(p) =>
            /\ \A j \in 1..Len(findColumnsBlocks(doc)) :
                  /\ findColumnsBlocks(doc)[j].startPos # p
                  /\ \A k \in 1..Len(BlockRanges(findColumnsBlocks(doc)[j], Len(doc))) :
                        BlockRanges(findColumnsBlocks(doc)[j], Len(doc))[k].to <= p
            /\ call.head > p => call.raf = -1)
    /\ [][(TypeStep /\ \E p \in 0..Len(doc) : Unterminated(p) /\ call.head > p)
           => /\ ~lastOp'.blocked
              /\ doc' = ApplyChange(doc, lastOp'.change)
              /\ call'.head = call.head + 1
              /\ call'.raf = -1]_vars

\* a character was typed after a start marker that no end marker follows,
\* in live preview, and the cursor stands after the character
C29_Witness ==
    /\ livePreview
    /\ lastOp.op = "raw"
    /\ ~lastOp.blocked
    /\ \E p \in 0..Len(doc) :
          Unterminated(p) /\ lastOp.change.from > p /\ call.head > lastOp.change.from

\* ------------------------------------ claims on the end of the metadata
\* a column of the block holds a line that looks like a colors or a borders
\* line
StyleLineInBody(block) ==
    \E i \in 1..Len(block.columns) : HasMetadataLine(block.columns[i])

\* C30: a flush of a surface whose block has a colors- or borders-looking
\* line in a column leaves that line in the column and leaves the colors
\* and borders of the block as the locator read them before the flush
C30_BodyStyleLineStaysContent ==
    [][(/\ FlushStep
        /\ ~lastOp'.blocked
        /\ surfaces[lastOp'.s].alive)
       => \A b \in BlocksAt(doc, surfaces[lastOp'.s].pos) :
              StyleLineInBody(b) =>
                  \E b2 \in BlocksAt(doc', MapPos(b.startPos, lastOp'.change)) :
                      /\ StyleLineInBody(b2)
                      /\ NormStyles(b2.colors, b.numColumns)
                             = NormStyles(b.colors, b.numColumns)
                      /\ NormStyles(b2.borders, b.numColumns)
                             = NormStyles(b.borders, b.numColumns)]_vars

\* ------------------------------------------- the view plugin, update by update
\* The decoration set of columnsViewPlugin as a value: call holds the set,
\* lastIsLivePreview, the selection head and the target of the pending
\* animation frame callback (-1: none). The surfaces are left out here.
RECURSIVE AllRanges(_, _)
AllRanges(blocks, docLength) ==
    IF blocks = <<>> THEN <<>>
    ELSE BlockRanges(blocks[1], docLength) \o AllRanges(Tail(blocks), docLength)

\* buildDecorations: Decoration.none outside live preview, else the ranges
\* added for every located block, in order
buildDecorations(isLivePreview, text) ==
    IF ~isLivePreview THEN <<>>
    ELSE AllRanges(findColumnsBlocks(text), Len(text))

Plugin(decorations, lastIsLivePreview, head, raf) ==
    [fn |-> "plugin", decorations |-> decorations,
     lastIsLivePreview |-> lastIsLivePreview, head |-> head, raf |-> raf]

\* columnsViewPlugin.update without the comparison of the mode
updateNoModeCheck(plugin, docChanged, viewportChanged, isLivePreviewNow, text) ==
    [plugin EXCEPT
        !.lastIsLivePreview = isLivePreviewNow,
        !.decorations = IF docChanged \/ viewportChanged
                        THEN buildDecorations(isLivePreviewNow, text)
                        ELSE plugin.decorations]

\* columnsViewPlugin.update
update(plugin, docChanged, viewportChanged, isLivePreviewNow, text) ==
    LET modeChanged == isLivePreviewNow # plugin.lastIsLivePreview
    IN [plugin EXCEPT
           !.lastIsLivePreview = isLivePreviewNow,
           !.decorations = IF docChanged \/ viewportChanged \/ modeChanged
                           THEN buildDecorations(isLivePreviewNow, text)
                           ELSE plugin.decorations]

PluginDocs == InitDocs \cup {DocUnterminated}

\* the constructor of the plugin
InitPlugin ==
    /\ doc \in PluginDocs
    /\ livePreview \in BOOLEAN
    /\ surfaces = <<>>
    /\ focus = NoFocus
    /\ picker = NoPicker
    /\ lastOp = NoOp
    /\ keys = 0
    /\ extEdits = [raw |-> 0, style |-> 0, del |-> 0]
    /\ call = Plugin(buildDecorations(livePreview, doc), livePreview, 0, -1)

\* where the selection head is after the change
MapHead(head, change) ==
    IF head <= change.from THEN head
    ELSE IF head >= change.to THEN head + Len(change.insert) - (change.to - change.from)
    ELSE change.from + Len(change.insert)

\* a transaction with one change of the document and no selection: the
\* input filter may cancel it, otherwise the plugin is updated
PluginChange(change) ==
    /\ call.fn = "plugin"
    /\ ExtEditCount < MaxExtEdits
    /\ Len(doc) + Len(change.insert) <= MaxDocLen
    /\ IF blockCollapsedInput(livePreview, doc, change)
       THEN /\ lastOp' = Op("raw", 0, 0, TRUE, TRUE, change)
            /\ UNCHANGED <<doc, call>>
       ELSE /\ doc' = ApplyChange(doc, change)
            /\ lastOp' = Op("raw", 0, 0, TRUE, FALSE, change)
            /\ call' = update([call EXCEPT !.head = MapHead(call.head, change)],
                              TRUE, FALSE, livePreview, ApplyChange(doc, change))
    /\ extEdits' = [extEdits EXCEPT !.raw = extEdits.raw + 1]
    /\ UNCHANGED <<livePreview, surfaces, focus, picker, keys>>

PluginInsert == \E p \in 0..Len(doc) : \E t \in RawChars :
    PluginChange([from |-> p, to |-> p, insert |-> <<t>>])

MaxDeleteLen == 2
PluginDelete == \E p \in 0..(Len(doc) - 1) : \E n \in 1..MaxDeleteLen :
    /\ p + n <= Len(doc)
    /\ PluginChange([from |-> p, to |-> p + n, insert |-> <<>>])

\* an update that only changes the viewport (scrolling)
PluginViewport ==
    /\ call.fn = "plugin"
    /\ call' = update(call, FALSE, TRUE, livePreview, doc)
    /\ lastOp' = Op("viewport", 0, 0, FALSE, FALSE, NoChange)
    /\ UNCHANGED <<doc, livePreview, surfaces, focus, picker, keys, extEdits>>

\* the user switches between source mode and live preview
PluginToggle ==
    /\ call.fn = "plugin"
    /\ livePreview' = ~livePreview
    /\ call' = update(call, FALSE, FALSE, ~livePreview, doc)
    /\ lastOp' = Op("toggle", 0, 0, FALSE, FALSE, NoChange)
    /\ UNCHANGED <<doc, surfaces, focus, picker, keys, extEdits>>

\* the user puts the cursor at offset p while no relocation is pending: the
\* plugin is updated, and cursorAutoJump may request an animation frame
PluginSelect ==
    /\ call.fn = "plugin"
    /\ call.raf = -1
    /\ \E p \in 0..Len(doc) :
          call' = update([call EXCEPT !.head = p,
                                      !.raf = cursorAutoJump(livePreview, doc, p)],
                         FALSE, FALSE, livePreview, doc)
    /\ lastOp' = Op("select", 0, 0, FALSE, FALSE, NoChange)
    /\ UNCHANGED <<doc, livePreview, surfaces, focus, picker, keys, extEdits>>

\* the animation frame callback dispatches the selection at targetPos; a
\* target beyond the document makes dispatch throw
PluginFrame ==
    /\ call.fn = "plugin"
    /\ call.raf # -1
    /\ IF call.raf > Len(doc)
       THEN /\ call' = [call EXCEPT !.raf = -1]
            /\ lastOp' = Op("frame", 0, 0, FALSE, FALSE, NoChange)
       ELSE /\ call' = update([call EXCEPT
                                  !.head = call.raf,
                                  !.raf = cursorAutoJump(livePreview, doc, call.raf)],
                              FALSE, FALSE, livePreview, doc)
            /\ lastOp' = Op("frame", 0, 0, TRUE, FALSE, NoChange)
    /\ UNCHANGED <<doc, livePreview, surfaces, focus, picker, keys, extEdits>>

NextPlugin ==
    \/ PluginInsert \/ PluginDelete \/ PluginViewport
    \/ PluginToggle \/ PluginSelect \/ PluginFrame

SpecPlugin == InitPlugin /\ [][NextPlugin]_vars

\* ------------------------------------------- claims on the decoration set
\* C31: in live preview the decoration set is the one built from the
\* current document, after every update; an update that neither changes the
\* document nor the viewport nor the mode leaves the set as it was
C31_DecorationsFollowDocument ==
    /\ [](livePreview => call.decorations = buildDecorations(TRUE, doc))
    /\ [][lastOp'.op \in {"select", "frame"}
           => call'.decorations = call.decorations]_vars

\* the mode was switched to live preview after a change of the document in
\* source mode, and the document has a block
C31_Witness ==
    /\ livePreview
    /\ lastOp.op = "toggle"
    /\ extEdits.raw = 1
    /\ call.decorations # <<>>

\* ------------------------------------------------ claims on source mode
\* C32: while the view is not in live preview the decoration set is empty,
\* the input filter cancels no transaction and no animation frame callback
\* moves the cursor
C32_InertOutsideLivePreview ==
    /\ [](~livePreview => call.decorations = <<>>)
    /\ [][(~livePreview /\ lastOp'.op = "raw") => ~lastOp'.blocked]_vars
    /\ [][(~livePreview /\ lastOp'.op = "frame") => ~lastOp'.dispatched]_vars

\* ------------------------------------------------ claims on termination
\* the debounced flushes that are scheduled and have not fired
PendingFlushes ==
    UNION {{<<s, i>> : i \in surfaces[s].timers} : s \in 1..Len(surfaces)}
\* the step is made without input from the user: a debounce timer fires
TimerStep == lastOp'.op \in {"timer", "timerThrows"}

\* C33: every step made without user input is the firing of a debounce
\* timer and leaves fewer flushes pending than before, so finitely many
\* mutations follow the last input; no flush request, whatever it
\* dispatches and whatever surfaces are reused or rebuilt, schedules a flush
C33_NoEditLoop ==
    /\ [][TimerStep => Cardinality(PendingFlushes') < Cardinality(PendingFlushes)]_vars
    /\ [][FlushRequest => Cardinality(PendingFlushes') <= Cardinality(PendingFlushes)]_vars
    /\ [][doc' # doc => \/ TimerStep
                        \/ keys' # keys
                        \/ extEdits' # extEdits
                        \/ lastOp'.op = "blur"]_vars

\* a debounced flush has changed the document, its surface was reused and
\* no flush is pending
C33_Witness ==
    /\ lastOp.op = "timer"
    /\ lastOp.dispatched
    /\ ~lastOp.blocked
    /\ surfaces[lastOp.s].alive
    /\ PendingFlushes = {}

\* ------------------------------------------------ claims on the input filter
\* offset p of text is in the hidden range of a located block, after its
\* start marker
HiddenBeyondStart(text, p) ==
    \E j \in 1..Len(findColumnsBlocks(text)) :
        /\ findColumnsBlocks(text)[j].startPos + 1 <= p
        /\ p < findColumnsBlocks(text)[j].endPos
\* the step is a raw-editor transaction that changes the document
RawChangeStep == extEdits'.raw = extEdits.raw + 1

\* C34: in live preview a raw-editor transaction that the filter accepts
\* removes no character of the hidden range of a block beyond its start
\* marker
C34_AcceptedEditSparesHiddenText ==
    [][(RawChangeStep /\ livePreview /\ ~lastOp'.blocked)
       => \A p \in lastOp'.change.from..(lastOp'.change.to - 1) :
              ~HiddenBeyondStart(doc, p)]_vars

\* the step is a mutation the subsystem dispatches itself: the replace of a
\* flush, the deletion of a block or the replace of a style application
OwnMutationStep ==
    \/ FlushStep
    \/ DeleteStep /\ lastOp'.dispatched
    \/ extEdits'.style = extEdits.style + 1

\* C35: the input filter cancels no mutation that the subsystem dispatches
\* itself
C35_OwnMutationsPassFilter ==
    [][OwnMutationStep => ~lastOp'.blocked]_vars

\* offset p is where a located block of text ends
IsBlockEnd(text, p) ==
    \E j \in 1..Len(findColumnsBlocks(text)) : findColumnsBlocks(text)[j].endPos = p

\* C36: in live preview an insertion at the offset where a block ends is
\* accepted by the input filter and the text is inserted there
C36_InsertAfterBlockAccepted ==
    [][(/\ RawChangeStep
        /\ livePreview
        /\ lastOp'.change.from = lastOp'.change.to
        /\ IsBlockEnd(doc, lastOp'.change.from))
       => ~lastOp'.blocked /\ doc' = ApplyChange(doc, lastOp'.change)]_vars

\* ------------------------------------------- claims on the shown styles
\* the style tokens the panes of a surface show: createColumn takes them
\* from the block the widget was constructed with
ShownStyles(surf) ==
    [colors |-> NormStyles(surf.block.colors, surf.block.numColumns),
     borders |-> NormStyles(surf.block.borders, surf.block.numColumns)]
BlockStyles(block) ==
    [colors |-> NormStyles(block.colors, block.numColumns),
     borders |-> NormStyles(block.borders, block.numColumns)]

\* C37: when a style application changes the colors or borders located for
\* a block that has a live surface, the surface shown for the block
\* afterwards shows the new style tokens on its panes
C37_SurfaceShowsAppliedStyle ==
    [][(extEdits'.style = extEdits.style + 1 /\ ~lastOp'.blocked) =>
        \A s \in 1..Len(surfaces) : \A t \in 1..Len(surfaces') :
            \A b \in BlocksAt(doc, surfaces[s].pos) :
                \A nb \in BlocksAt(doc', surfaces'[t].pos) :
                    (/\ surfaces[s].alive
                     /\ surfaces'[t].alive
                     /\ surfaces'[t].pos = MapPos(surfaces[s].pos, lastOp'.change)
                     /\ nb.numColumns = b.numColumns
                     /\ BlockStyles(nb) # BlockStyles(b))
                    => ShownStyles(surfaces'[t]) = BlockStyles(nb)
    ]_vars

\* ------------------------------------------------ claims on the picker
\* C38: the start marker that the picker selects after a click on a column
\* of a surface is the start marker of the block the surface renders
C38_PickerTargetsClickedBlock ==
    [][(lastOp'.op = "click" /\ picker'.open)
       => picker'.startPos = surfaces[lastOp'.s].pos]_vars

\* ------------------------------------------------ column selection mode
\* The fields isSelectingColumn and columnClickHandler of the plugin, the
\* click listeners registered on the document and the pending auto-exit
\* timeouts, oldest first (all have the same delay). A session is named by
\* its number; handler 0 is null.
MaxSessions == 3

Selecting(isSelectingColumn, columnClickHandler, listeners, timeouts, session, type, loaded) ==
    [fn |-> "select", isSelectingColumn |-> isSelectingColumn,
     columnClickHandler |-> columnClickHandler, listeners |-> listeners,
     timeouts |-> timeouts, session |-> session, type |-> type,
     loaded |-> loaded]

exitColumnSelectionMode(c) ==
    [c EXCEPT !.isSelectingColumn = FALSE,
              !.listeners = IF c.columnClickHandler # 0
                            THEN c.listeners \ {c.columnClickHandler}
                            ELSE c.listeners,
              !.columnClickHandler = 0]

enterColumnSelectionMode(c, type) ==
    IF c.isSelectingColumn THEN exitColumnSelectionMode(c)
    ELSE [c EXCEPT !.isSelectingColumn = TRUE,
                   !.session = c.session + 1,
                   !.type = type,
                   !.columnClickHandler = c.session + 1,
                   !.listeners = c.listeners \cup {c.session + 1},
                   !.timeouts = Append(c.timeouts, c.session + 1)]

InitSelect ==
    /\ doc \in InitDocs
    /\ livePreview = TRUE
    /\ surfaces = [j \in 1..Len(DecoratedBlocks(livePreview, doc)) |->
                      NewSurface(DecoratedBlocks(livePreview, doc)[j])]
    /\ focus = NoFocus
    /\ picker = NoPicker
    /\ lastOp = NoOp
    /\ keys = 0
    /\ extEdits = [raw |-> 0, style |-> 0, del |-> 0]
    /\ call = Selecting(FALSE, 0, {}, <<>>, 0, "color", TRUE)

\* the menu item or the command: enterColumnSelectionMode(type)
SelectEnter ==
    /\ call.loaded
    /\ ~picker.open
    /\ call.isSelectingColumn \/ call.session < MaxSessions
    /\ \E type \in {"color", "border"} :
          call' = enterColumnSelectionMode(call, type)
    /\ lastOp' = Op(IF call.isSelectingColumn THEN "toggleOff" ELSE "enter",
                    call.session, 0, FALSE, FALSE, NoChange)
    /\ UNCHANGED <<doc, livePreview, surfaces, focus, picker, keys, extEdits>>

\* a click on column i of surface s while a click listener is registered
SelectClick ==
    /\ call.listeners # {}
    /\ ~picker.open
    /\ \E s \in 1..Len(surfaces) : \E i \in 1..Len(surfaces[s].panes) :
          /\ surfaces[s].alive
          /\ picker' = showColorPaletteForColumn(doc, i - 1, call.type,
                                                 ContainerIndex(surfaces, s))
          /\ lastOp' = Op("selectClick", s, i, FALSE, FALSE, NoChange)
    /\ call' = exitColumnSelectionMode(call)
    /\ UNCHANGED <<doc, livePreview, surfaces, focus, keys, extEdits>>

\* a click that is not on a column: the listener does nothing
SelectMiss ==
    /\ call.listeners # {}
    /\ ~picker.open
    /\ lastOp' = Op("miss", call.session, 0, FALSE, FALSE, NoChange)
    /\ UNCHANGED <<doc, livePreview, surfaces, focus, picker, keys, extEdits, call>>

\* the oldest pending auto-exit timeout fires
SelectTimeout ==
    /\ call.timeouts # <<>>
    /\ call' = IF call.isSelectingColumn
               THEN [exitColumnSelectionMode(call) EXCEPT !.timeouts = Tail(call.timeouts)]
               ELSE [call EXCEPT !.timeouts = Tail(call.timeouts)]
    /\ lastOp' = Op("timeout", Head(call.timeouts), 0, FALSE, FALSE, NoChange)
    /\ UNCHANGED <<doc, livePreview, surfaces, focus, picker, keys, extEdits>>

\* onunload
SelectUnload ==
    /\ call.loaded
    /\ call' = [exitColumnSelectionMode(call) EXCEPT !.loaded = FALSE]
    /\ lastOp' = Op("unload", call.session, 0, FALSE, FALSE, NoChange)
    /\ UNCHANGED <<doc, livePreview, surfaces, focus, picker, keys, extEdits>>

\* the palette is closed without a choice
SelectClose == call.fn = "select" /\ ClosePicker

NextSelect ==
    \/ SelectEnter \/ SelectClick \/ SelectMiss
    \/ SelectTimeout \/ SelectUnload \/ SelectClose

SpecSelect == InitSelect /\ [][NextSelect]_vars

\* C39: at most one click listener is registered, and a column selection
\* session ends only by a click on a column, by the toggle, by the unload
\* or by the timeout that was scheduled when that session was entered
C39_SessionEndsOnlyByItsOwnEvents ==
    /\ [](Cardinality(call.listeners) <= 1)
    /\ [][(call.isSelectingColumn /\ ~call'.isSelectingColumn)
           => \/ lastOp'.op \in {"selectClick", "toggleOff", "unload"}
              \/ lastOp'.op = "timeout" /\ lastOp'.s = call.session]_vars

====
